---- MODULE Spec2Model ----
(***************************************************************************)
(* The retry layer of electron-playwright-helpers (src/src/utilities.ts):  *)
(* errToString, the error classification done in retry's catch block, the  *)
(* retry loop itself, retryUntilTruthy built on it, and the process-wide   *)
(* retry configuration with its accessors setRetryOptions /                *)
(* getRetryOptions / resetRetryOptions.                                    *)
(*                                                                         *)
(* Strings are sequences of one-character strings, so that lower-casing,   *)
(* substring search and message building are computed, not assumed.        *)
(* Time is a millisecond clock `now`; it moves by Tick (one millisecond,   *)
(* at most MaxTicks times in a behaviour) and by AdvanceToTimer (the clock *)
(* jumps to the due time of the earliest pending timer).  A timer fires at  *)
(* its due time or later, and fn takes any time the clock allows; the      *)
(* field `exact` of a call records that neither has taken longer than its  *)
(* nominal time so far.                                                    *)
(*                                                                         *)
(* Spec is the retry engine under a configuration installed beforehand by  *)
(* setRetryOptions / resetRetryOptions; SpecConfig is the configuration    *)
(* accessors together with what a caller does with the objects they        *)
(* return, up to the moment a retry call resolves its options; SpecShared  *)
(* runs retry calls after a caller has edited the errorMatch list of an    *)
(* object getRetryOptions returned; SpecTruthy is retryUntilTruthy, its    *)
(* loop of inner retry calls and waits.                                    *)
(***************************************************************************)
EXTENDS Integers, Sequences, FiniteSets, TLC

\* ---------------------------------------------------------------- bounds
\* fn is invoked at most MaxTries times in one retry call
MaxTries == 6
\* at most MaxTicks single-millisecond clock steps in a behaviour
MaxTicks == 2
\* an errorMatch list is never grown beyond MaxArrayLen entries
MaxArrayLen == 5
\* at most MaxRounds inner retry calls in one retryUntilTruthy call
MaxRounds == 3
\* the longest list of stubs passed to stubDialogMatchers
MaxStubs == 2
\* the most windows the application opens
MaxPages == 2

\* --------------------------------------------------------------- strings
sContextClosed == <<"c", "o", "n", "t", "e", "x", "t", " ", "o", "r", " ", "b", "r", "o", "w", "s", "e", "r", " ", "h", "a", "s", " ", "b", "e", "e", "n", " ", "c", "l", "o", "s", "e", "d">>
sPromiseCollected == <<"P", "r", "o", "m", "i", "s", "e", " ", "w", "a", "s", " ", "c", "o", "l", "l", "e", "c", "t", "e", "d">>
sContextDestroyed == <<"E", "x", "e", "c", "u", "t", "i", "o", "n", " ", "c", "o", "n", "t", "e", "x", "t", " ", "w", "a", "s", " ", "d", "e", "s", "t", "r", "o", "y", "e", "d">>
sGetOwnerBrowserWindow == <<"r", "e", "a", "d", "i", "n", "g", " ", "'", "g", "e", "t", "O", "w", "n", "e", "r", "B", "r", "o", "w", "s", "e", "r", "W", "i", "n", "d", "o", "w", "'">>
sTimeoutPrefix == <<"r", "e", "t", "r", "y", "(", ")", ":", ":", "T", "i", "m", "e", "o", "u", "t", " ", "a", "f", "t", "e", "r", " ">>
sTruthyTimeoutPrefix == <<"r", "e", "t", "r", "y", "U", "n", "t", "i", "l", "T", "r", "u", "t", "h", "y", ":", ":", "T", "i", "m", "e", "o", "u", "t", " ", "a", "f", "t", "e", "r", " ">>
sMenuItemNotFound == <<"M", "e", "n", "u", " ", "i", "t", "e", "m", " ", "w", "i", "t", "h", " ", "i", "d", " ", "n", "e", "w", "-", "w", "i", "n", "d", "o", "w", " ", "n", "o", "t", " ", "f", "o", "u", "n", "d">>
sMs == <<"m", "s">>
sNoMatchingStub == <<"N", "o", " ", "m", "a", "t", "c", "h", "i", "n", "g", " ", "s", "t", "u", "b", " ", "f", "o", "r", " ">>
sDelete == <<"D", "e", "l", "e", "t", "e">>
sDeleteLower == <<"d", "e", "l", "e", "t", "e">>
sCancel == <<"C", "a", "n", "c", "e", "l">>
sTimeoutErrorName == <<"T", "i", "m", "e", "o", "u", "t", "E", "r", "r", "o", "r">>
sTimeoutSpace == <<"T", "i", "m", "e", "o", "u", "t", " ">>
sExceededWindow == <<"m", "s", " ", "e", "x", "c", "e", "e", "d", "e", "d", " ", "w", "h", "i", "l", "e", " ", "w", "a", "i", "t", "i", "n", "g", " ", "f", "o", "r", " ", "e", "v", "e", "n", "t", " ", "\"", "w", "i", "n", "d", "o", "w", "\"">>
sWaitingForWindow == <<"T", "i", "m", "e", "o", "u", "t", " ", "w", "a", "i", "t", "i", "n", "g", " ", "f", "o", "r", " ", "w", "i", "n", "d", "o", "w", " ", "m", "a", "t", "c", "h", "i", "n", "g", " ", "c", "r", "i", "t", "e", "r", "i", "a", " ", "a", "f", "t", "e", "r", " ">>
sTimeoutAfterLower == <<"t", "i", "m", "e", "o", "u", "t", " ", "a", "f", "t", "e", "r", " ">>
sTimeoutAfter == <<"T", "i", "m", "e", "o", "u", "t", " ", "a", "f", "t", "e", "r", " ">>
sMsDot == <<"m", "s", ".">>
sLastThrow == <<" ", "L", "a", "s", "t", " ", "t", "h", "r", "o", "w", ":", " ">>
sErrorName == <<"E", "r", "r", "o", "r">>
sTypeErrorName == <<"T", "y", "p", "e", "E", "r", "r", "o", "r">>
sColonSpace == <<":", " ">>
sNull == <<"n", "u", "l", "l">>
sNoToLowerCase == <<"C", "a", "n", "n", "o", "t", " ", "r", "e", "a", "d", " ", "p", "r", "o", "p", "e", "r", "t", "i", "e", "s", " ", "o", "f", " ", "u", "n", "d", "e", "f", "i", "n", "e", "d", " ", "(", "r", "e", "a", "d", "i", "n", "g", " ", "'", "t", "o", "L", "o", "w", "e", "r", "C", "a", "s", "e", "'", ")">>
sCircular == <<"C", "o", "n", "v", "e", "r", "t", "i", "n", "g", " ", "c", "i", "r", "c", "u", "l", "a", "r", " ", "s", "t", "r", "u", "c", "t", "u", "r", "e", " ", "t", "o", " ", "J", "S", "O", "N">>
sFail == <<"f", "a", "i", "l">>
sFailUpper == <<"F", "A", "I", "L">>
sUnexpected == <<"U", "n", "e", "x", "p", "e", "c", "t", "e", "d", " ", "e", "r", "r", "o", "r">>
sTrue == <<"t", "r", "u", "e">>
sFalse == <<"f", "a", "l", "s", "e">>
sUndefined == <<"u", "n", "d", "e", "f", "i", "n", "e", "d">>
sSuccess == <<"s", "u", "c", "c", "e", "s", "s">>
sDigits == <<"0", "1", "2", "3", "4", "5", "6", "7", "8", "9">>
sUpper == <<"A", "B", "C", "D", "E", "F", "G", "H", "I", "J", "K", "L", "M",
            "N", "O", "P", "Q", "R", "S", "T", "U", "V", "W", "X", "Y", "Z">>
sLower == <<"a", "b", "c", "d", "e", "f", "g", "h", "i", "j", "k", "l", "m",
            "n", "o", "p", "q", "r", "s", "t", "u", "v", "w", "x", "y", "z">>

\* String.prototype.toLowerCase, one character
toLowerChar(c) ==
    IF \E k \in 1..26 : sUpper[k] = c
    THEN sLower[CHOOSE k \in 1..26 : sUpper[k] = c]
    ELSE c

\* String.prototype.toLowerCase
toLowerCase(s) == [k \in 1..Len(s) |-> toLowerChar(s[k])]

\* the 0-based positions >= from at which sub occurs in s
occurrences(s, sub, from) ==
    {k \in from..(Len(s) - Len(sub)) : SubSeq(s, k + 1, k + Len(sub)) = sub}

\* String.prototype.includes
includes(s, sub) == occurrences(s, sub, 0) # {}

\* template-literal / String() conversion of a number
RECURSIVE natToString(_)
natToString(n) ==
    IF n < 10 THEN <<sDigits[n + 1]>>
    ELSE natToString(n \div 10) \o <<sDigits[(n % 10) + 1]>>

numberToString(n) == IF n < 0 THEN <<"-">> \o natToString(0 - n) ELSE natToString(n)

\* ------------------------------------------------------------- JS values
\* every JavaScript value the model handles, in one record shape
jsUndefined == [kind |-> "undefined", name |-> <<>>, s |-> <<>>, b |-> FALSE]
jsNull == [kind |-> "null", name |-> <<>>, s |-> <<>>, b |-> FALSE]
jsString(str) == [kind |-> "string", name |-> <<>>, s |-> str, b |-> FALSE]
jsBoolean(v) == [kind |-> "boolean", name |-> <<>>, s |-> <<>>, b |-> v]
\* new Error(message), new TypeError(message): name and message
jsError(nm, message) == [kind |-> "Error", name |-> nm, s |-> message, b |-> FALSE]
\* an object that holds a reference to itself
jsCyclic == [kind |-> "cyclic", name |-> <<>>, s |-> <<>>, b |-> FALSE]

\* ToBoolean
truthy(v) ==
    CASE v.kind = "undefined" -> FALSE
      [] v.kind = "null" -> FALSE
      [] v.kind = "string" -> v.s # <<>>
      [] v.kind = "boolean" -> v.b
      [] OTHER -> TRUE

\* what fn may throw
ThrownValues ==
    { jsError(sErrorName, sPromiseCollected),
      jsError(sErrorName, sFail),
      jsError(sErrorName, sUnexpected),
      jsString(sFailUpper),
      jsNull, jsUndefined, jsCyclic }

\* what fn may return
ReturnValues == { jsString(sSuccess), jsBoolean(FALSE), jsUndefined }

\* Error.prototype.toString
errorToString(err) ==
    IF err.name = <<>> THEN err.s
    ELSE IF err.s = <<>> THEN err.name
    ELSE err.name \o sColonSpace \o err.s

\* JSON.stringify: a string, undefined for undefined, or a TypeError
jsonStringify(v) ==
    CASE v.kind = "null" -> [tag |-> "string", s |-> sNull]
      [] v.kind = "boolean" -> [tag |-> "string", s |-> IF v.b THEN sTrue ELSE sFalse]
      [] v.kind = "undefined" -> [tag |-> "undefined", s |-> <<>>]
      [] OTHER -> [tag |-> "throws", s |-> sCircular]

\* errToString: tag "string" with the text, "undefined" when JSON.stringify
\* yields undefined, "throws" when JSON.stringify throws
errToString(err) ==
    IF err.kind = "Error" THEN [tag |-> "string", s |-> errorToString(err)]
    ELSE IF err.kind = "string" THEN [tag |-> "string", s |-> err.s]
    ELSE jsonStringify(err)

\* ------------------------------------------------- errorMatch and RegExp
\* RetryOptions.errorMatch: string | string[] | RegExp.  A list and a RegExp
\* are objects: the value holds a reference (ref) to them.
matchString(str) == [kind |-> "string", s |-> str, ref |-> "none"]
matchArray(id) == [kind |-> "array", s |-> <<>>, ref |-> id]
matchRegExp(id) == [kind |-> "regexp", s |-> <<>>, ref |-> id]

\* the list objects: the one retryDefaults is built with, and one a caller made
ArrayIds == {"defaultList", "userList"}

\* the RegExp objects a caller made: /fail/ and /fail/g (literal patterns)
RegExps ==
    [ reFail |-> [source |-> sFail, ignoreCase |-> FALSE, global |-> FALSE],
      reFailG |-> [source |-> sFail, ignoreCase |-> FALSE, global |-> TRUE] ]

RegExpIds == DOMAIN RegExps

\* the smallest element of a non-empty set of numbers
minOf(S) == CHOOSE x \in S : \A y \in S : x <= y

\* RegExp.prototype.test for a literal pattern: the answer and the lastIndex
\* of every RegExp afterwards (a global RegExp searches from its lastIndex and
\* moves it; the others leave it alone)
regExpTest(id, str, li) ==
    LET re == RegExps[id]
        hay == IF re.ignoreCase THEN toLowerCase(str) ELSE str
        needle == IF re.ignoreCase THEN toLowerCase(re.source) ELSE re.source
    IN  IF ~re.global
        THEN [found |-> includes(hay, needle), lastIndex |-> li]
        ELSE LET occ == IF li[id] > Len(str) THEN {}
                        ELSE occurrences(hay, needle, li[id])
             IN  IF occ = {}
                 THEN [found |-> FALSE, lastIndex |-> [li EXCEPT ![id] = 0]]
                 ELSE [found |-> TRUE,
                       lastIndex |-> [li EXCEPT ![id] = minOf(occ) + Len(needle)]]

\* a condition that lower-cases the thrown text only, not the wanted strings
classifyPatternAsIs(es, errorMatch, arrs, li) ==
    CASE errorMatch.kind = "string" ->
           [verdict |-> IF es.tag = "undefined" THEN "typeerror"
                        ELSE IF ~includes(toLowerCase(es.s), errorMatch.s)
                        THEN "rethrow" ELSE "retry",
            lastIndex |-> li]
      [] errorMatch.kind = "regexp" ->
           LET r == regExpTest(errorMatch.ref,
                               IF es.tag = "undefined" THEN sUndefined ELSE es.s, li)
           IN  [verdict |-> IF ~r.found THEN "rethrow" ELSE "retry",
                lastIndex |-> r.lastIndex]
      [] OTHER ->
           LET list == arrs[errorMatch.ref]
           IN  [verdict |-> IF list = <<>> THEN "rethrow"
                            ELSE IF es.tag = "undefined" THEN "typeerror"
                            ELSE IF ~(\E k \in 1..Len(list) :
                                        includes(toLowerCase(es.s), list[k]))
                            THEN "rethrow" ELSE "retry",
                lastIndex |-> li]

\* The condition of retry's catch block.  es is errToString's result (a
\* string or undefined), arrs the list objects, li the RegExps' lastIndex.
\* verdict "rethrow": the error does not match; "retry": it matches;
\* "typeerror": evaluating the condition throws (toLowerCase of undefined).
classify(es, errorMatch, arrs, li) ==
    CASE errorMatch.kind = "string" ->
           [verdict |-> IF es.tag = "undefined" THEN "typeerror"
                        ELSE IF ~includes(toLowerCase(es.s), toLowerCase(errorMatch.s))
                        THEN "rethrow" ELSE "retry",
            lastIndex |-> li]
      [] errorMatch.kind = "regexp" ->
           LET r == regExpTest(errorMatch.ref,
                               IF es.tag = "undefined" THEN sUndefined ELSE es.s, li)
           IN  [verdict |-> IF ~r.found THEN "rethrow" ELSE "retry",
                lastIndex |-> r.lastIndex]
      [] OTHER ->
           LET list == arrs[errorMatch.ref]
           IN  [verdict |-> IF list = <<>> THEN "rethrow"
                            ELSE IF es.tag = "undefined" THEN "typeerror"
                            ELSE IF ~(\E k \in 1..Len(list) :
                                        includes(toLowerCase(es.s), toLowerCase(list[k])))
                            THEN "rethrow" ELSE "retry",
                lastIndex |-> li]

\* ---------------------------------------------------------- RetryOptions
FieldNames == {"timeout", "poll", "errorMatch", "disable"}

\* RetryOptions.poll: number | 'raf'
pollMs(ms) == [raf |-> FALSE, ms |-> ms]
pollRaf == [raf |-> TRUE, ms |-> 0]

\* Partial<RetryOptions>: keys are the fields the object has
partial(keys, t, p, m, d) ==
    [keys |-> keys,
     timeout |-> IF "timeout" \in keys THEN t ELSE 0,
     poll |-> IF "poll" \in keys THEN p ELSE pollMs(0),
     errorMatch |-> IF "errorMatch" \in keys THEN m ELSE matchString(<<>>),
     disable |-> IF "disable" \in keys THEN d ELSE FALSE]

\* a whole RetryOptions object seen as the source of an Object.assign / spread
allFields(o) ==
    [keys |-> FieldNames, timeout |-> o.timeout, poll |-> o.poll,
     errorMatch |-> o.errorMatch, disable |-> o.disable]

\* Object.assign(target, source) and the spread {...target, ...source}:
\* every field source has replaces target's, the others stay
objectAssign(target, source) ==
    [timeout |-> IF "timeout" \in source.keys THEN source.timeout ELSE target.timeout,
     poll |-> IF "poll" \in source.keys THEN source.poll ELSE target.poll,
     errorMatch |-> IF "errorMatch" \in source.keys THEN source.errorMatch
                    ELSE target.errorMatch,
     disable |-> IF "disable" \in source.keys THEN source.disable ELSE target.disable]

\* const retryDefaults
retryDefaults ==
    [disable |-> FALSE, poll |-> pollMs(200), timeout |-> 5000,
     errorMatch |-> matchArray("defaultList")]

\* the list retryDefaults.errorMatch is built with
defaultErrorMatch ==
    <<sContextClosed, sPromiseCollected, sContextDestroyed, sGetOwnerBrowserWindow>>

\* ----------------------------------------------------------------- state
VARIABLES
    objs,       \* the RetryOptions objects: retryDefaults, currentRetryOptions,
                \* and the latest object getRetryOptions handed out
    arrays,     \* the contents of the list objects
    lastIndex,  \* lastIndex of the RegExp objects
    handle,     \* the object the caller holds: what the last accessor returned
    heldFrom,   \* the accessor that returned the object the caller holds
    now,        \* Date.now()
    ticks,      \* single-millisecond clock steps taken so far
    call,       \* the retry invocations
    outer,      \* the retryUntilTruthy invocation
    timed,      \* the addTimeoutToPromise invocation
    dialog,     \* the stubbed dialog module and its latest call
    waiter,     \* the waitForWindowByMatcher invocation
    pages,      \* the windows of the Electron application
    lastOp      \* the operation performed by the last step, with its argument

vars == <<objs, arrays, lastIndex, handle, heldFrom, now, ticks, call, outer,
          timed, dialog, waiter, pages, lastOp>>

\* the state of retry, retryUntilTruthy and the retry options
retryState == <<objs, arrays, lastIndex, handle, heldFrom, call, outer>>

ObjIds == {"retryDefaults", "currentRetryOptions", "snapshot"}

CallIds == {1, 2}

\* the fallback delay of poll 'raf' outside a renderer
RafFallbackMs == 20

\* requestAnimationFrame calls back at the next frame: at once or up to one
\* 60 Hz frame later
FrameDelays == {0, 16}

\* ---------------------------------------------------------------- inputs
TimeoutInputs == {0 - 1, 0, 2, 50}
PollInputs == {pollMs(1), pollMs(20), pollRaf}
ErrorMatchInputs ==
    { matchString(sFail), matchString(sNull), matchRegExp("reFail"),
      matchRegExp("reFailG"), matchArray("userList") }

\* the options a caller passes to retry: every subset of the fields with one
\* value each, every timeout with every poll, every kind of errorMatch, and
\* disable set to true and to false
OptionInputs ==
    { partial(K, 2, pollMs(1), matchString(sFail), TRUE) : K \in SUBSET FieldNames }
    \cup { partial({"timeout", "poll", "errorMatch"}, t, p, matchString(sFail), FALSE) :
             t \in TimeoutInputs, p \in PollInputs }
    \cup { partial({"timeout", "poll", "errorMatch"}, 2, pollMs(1), m, FALSE) :
             m \in ErrorMatchInputs }
    \cup { partial({"timeout", "errorMatch", "disable"}, t, pollMs(0), matchString(sFail), d) :
             t \in {0, 2}, d \in BOOLEAN }

\* the options a caller passes to setRetryOptions
SetInputs ==
    { partial({"timeout"}, 2, pollMs(0), matchString(<<>>), FALSE),
      partial({"poll", "errorMatch"}, 0, pollMs(1), matchString(sFail), FALSE),
      partial({"disable"}, 0, pollMs(0), matchString(<<>>), TRUE) }

\* the single-field assignments a caller makes to an object it holds
AssignInputs ==
    { partial({"timeout"}, 2, pollMs(0), matchString(<<>>), FALSE),
      partial({"poll"}, 0, pollMs(1), matchString(<<>>), FALSE),
      partial({"errorMatch"}, 0, pollMs(0), matchString(sFail), FALSE),
      partial({"disable"}, 0, pollMs(0), matchString(<<>>), TRUE) }

\* ------------------------------------------------------- a retry() call
pending == [status |-> "pending", value |-> jsUndefined]
resolved(v) == [status |-> "resolved", value |-> v]
rejected(e) == [status |-> "rejected", value |-> e]

\* a retry invocation that has not been made
idleCall ==
    [pc |-> "idle", options |-> partial({}, 0, pollMs(0), matchString(<<>>), FALSE),
     poll |-> pollMs(0), timeout |-> 0, errorMatch |-> matchString(<<>>),
     window |-> FALSE, startTime |-> 0, tries |-> 0, lastErr |-> jsUndefined,
     wakeAt |-> 0, outcome |-> pending,
     fnCalls |-> 0, fnStart |-> 0, exact |-> TRUE]

\* options.disable, read from the options object the caller passed
optionsDisable(c) == "disable" \in c.options.keys /\ c.options.disable

\* shouldContinue that goes on while the elapsed time is at most the timeout
shouldContinueInclusive(c, t) ==
    IF c.tries < 1 THEN TRUE
    ELSE IF optionsDisable(c) THEN FALSE
    ELSE t - c.startTime <= c.timeout

\* shouldContinue without its "always run once" line
shouldContinueNoFirstPass(c, t) ==
    IF optionsDisable(c) THEN FALSE
    ELSE t - c.startTime < c.timeout

\* const shouldContinue = () => ... at time t
shouldContinue(c, t) ==
    IF c.tries < 1 THEN TRUE
    ELSE IF optionsDisable(c) THEN FALSE
    ELSE t - c.startTime < c.timeout

\* the Error retry throws after its loop
timeoutError(c) ==
    jsError(sErrorName,
            sTimeoutPrefix \o numberToString(c.timeout) \o sMsDot
              \o (IF truthy(c.lastErr)
                  THEN LET es == errToString(c.lastErr)
                       IN  sLastThrow \o (IF es.tag = "string" THEN es.s ELSE sUndefined)
                  ELSE <<>>))

settle(c, result) == [c EXCEPT !.pc = "done", !.outcome = result]

\* the statements after the while loop: the timeout rejection
afterLoop(c) ==
    IF truthy(c.lastErr) /\ errToString(c.lastErr).tag = "throws"
    THEN settle(c, rejected(jsError(sTypeErrorName, sCircular)))
    ELSE settle(c, rejected(timeoutError(c)))

\* the head of the while loop at time t: another attempt (tries++, fn is
\* invoked) or, when shouldContinue() is false, the statements after the loop
loopHead(c, t) ==
    IF shouldContinue(c, t)
    THEN [c EXCEPT !.tries = @ + 1, !.pc = "inFn",
                   !.fnCalls = @ + 1, !.fnStart = t]
    ELSE afterLoop(c)

\* a wait that lasts two poll intervals
pollDelayTwice(c, frame) ==
    IF c.poll.raf
    THEN IF c.window THEN frame ELSE RafFallbackMs
    ELSE 2 * c.poll.ms

\* the delay of the wait between two attempts
pollDelay(c, frame) ==
    IF c.poll.raf
    THEN IF c.window THEN frame ELSE RafFallbackMs
    ELSE c.poll.ms

\* a catch block that starts the wait without looking at the elapsed time
catchBlockNoCheckAfterFailure(c, err, t, verdict, frame) ==
    LET c1 == [c EXCEPT !.lastErr = err, !.exact = @ /\ (t = c.fnStart)]
    IN  CASE verdict = "throws" ->
               settle(c1, rejected(jsError(sTypeErrorName, sCircular)))
          [] verdict = "typeerror" ->
               settle(c1, rejected(jsError(sTypeErrorName, sNoToLowerCase)))
          [] verdict = "rethrow" -> settle(c1, rejected(err))
          [] OTHER ->
               IF optionsDisable(c1)
               THEN settle(c1, resolved(jsUndefined))
               ELSE [c1 EXCEPT !.pc = "waiting", !.wakeAt = t + pollDelay(c1, frame)]

\* a catch block that retries an error that does not match
catchBlockRetriesUnmatched(c, err, t, verdict, frame) ==
    LET c1 == [c EXCEPT !.lastErr = err, !.exact = @ /\ (t = c.fnStart)]
    IN  CASE verdict = "throws" ->
               settle(c1, rejected(jsError(sTypeErrorName, sCircular)))
          [] verdict = "typeerror" ->
               settle(c1, rejected(jsError(sTypeErrorName, sNoToLowerCase)))
          [] OTHER ->
               IF ~shouldContinue(c1, t)
               THEN IF optionsDisable(c1)
                    THEN settle(c1, resolved(jsUndefined))
                    ELSE afterLoop(c1)
               ELSE [c1 EXCEPT !.pc = "waiting", !.wakeAt = t + pollDelay(c1, frame)]

\* a catch block that leaves the loop instead of returning when disabled
catchBlockDisabledTimesOut(c, err, t, verdict, frame) ==
    LET c1 == [c EXCEPT !.lastErr = err, !.exact = @ /\ (t = c.fnStart)]
    IN  CASE verdict = "throws" ->
               settle(c1, rejected(jsError(sTypeErrorName, sCircular)))
          [] verdict = "typeerror" ->
               settle(c1, rejected(jsError(sTypeErrorName, sNoToLowerCase)))
          [] verdict = "rethrow" -> settle(c1, rejected(err))
          [] OTHER ->
               IF ~shouldContinue(c1, t)
               THEN afterLoop(c1)
               ELSE [c1 EXCEPT !.pc = "waiting", !.wakeAt = t + pollDelay(c1, frame)]

\* a catch block that rejects a disabled call with the matching error
catchBlockDisabledRethrows(c, err, t, verdict, frame) ==
    LET c1 == [c EXCEPT !.lastErr = err, !.exact = @ /\ (t = c.fnStart)]
    IN  CASE verdict = "throws" ->
               settle(c1, rejected(jsError(sTypeErrorName, sCircular)))
          [] verdict = "typeerror" ->
               settle(c1, rejected(jsError(sTypeErrorName, sNoToLowerCase)))
          [] verdict = "rethrow" -> settle(c1, rejected(err))
          [] OTHER ->
               IF ~shouldContinue(c1, t)
               THEN IF optionsDisable(c1)
                    THEN settle(c1, rejected(err))
                    ELSE afterLoop(c1)
               ELSE [c1 EXCEPT !.pc = "waiting", !.wakeAt = t + pollDelay(c1, frame)]

\* the catch block at time t, fn having thrown err: the call afterwards
\* (verdict is classify's; frame the delay of the next animation frame)
catchBlock(c, err, t, verdict, frame) ==
    LET c1 == [c EXCEPT !.lastErr = err, !.exact = @ /\ (t = c.fnStart)]
    IN  CASE verdict = "throws" ->
               settle(c1, rejected(jsError(sTypeErrorName, sCircular)))
          [] verdict = "typeerror" ->
               settle(c1, rejected(jsError(sTypeErrorName, sNoToLowerCase)))
          [] verdict = "rethrow" -> settle(c1, rejected(err))
          [] OTHER ->
               IF ~shouldContinue(c1, t)
               THEN IF optionsDisable(c1)
                    THEN settle(c1, resolved(jsUndefined))
                    ELSE afterLoop(c1)
               ELSE [c1 EXCEPT !.pc = "waiting", !.wakeAt = t + pollDelay(c1, frame)]

\* ---------------------------------------------- a retryUntilTruthy() call
TruthyFieldNames ==
    {"timeout", "poll", "retryPoll", "retryTimeout", "retryErrorMatch", "retryDisable"}

\* Partial<RetryUntilTruthyOptions>: keys are the fields the object has
truthyPartial(keys, t, p, rp, rt, rm, rd) ==
    [keys |-> keys,
     timeout |-> IF "timeout" \in keys THEN t ELSE 0,
     poll |-> IF "poll" \in keys THEN p ELSE pollMs(0),
     retryPoll |-> IF "retryPoll" \in keys THEN rp ELSE 0,
     retryTimeout |-> IF "retryTimeout" \in keys THEN rt ELSE 0,
     retryErrorMatch |-> IF "retryErrorMatch" \in keys THEN rm ELSE matchString(<<>>),
     retryDisable |-> IF "retryDisable" \in keys THEN rd ELSE FALSE]

\* ToBoolean of an errorMatch value: of these, only the empty string is falsy
errorMatchTruthy(m) == m.kind # "string" \/ m.s # <<>>

\* const retryOptions = { ... }: the options every inner retry is called with
retryOptionsOf(o) ==
    partial((IF "retryPoll" \in o.keys THEN {"poll"} ELSE {})
              \cup (IF "retryTimeout" \in o.keys THEN {"timeout"} ELSE {})
              \cup (IF "retryErrorMatch" \in o.keys /\ errorMatchTruthy(o.retryErrorMatch)
                    THEN {"errorMatch"} ELSE {})
              \cup (IF "retryDisable" \in o.keys THEN {"disable"} ELSE {}),
            o.retryTimeout, pollMs(o.retryPoll), o.retryErrorMatch, o.retryDisable)

\* a retryUntilTruthy invocation that has not been made (rounds: the inner
\* retry calls started; fnCalls: the invocations of fn in the inner retry
\* calls that have settled; fnThrew: one of those invocations threw)
idleOuter ==
    [pc |-> "idle",
     options |-> truthyPartial({}, 0, pollMs(0), 0, 0, matchString(<<>>), FALSE),
     timeout |-> 0, poll |-> pollMs(0),
     retryOptions |-> partial({}, 0, pollMs(0), matchString(<<>>), FALSE),
     window |-> FALSE, startTime |-> 0, timeoutTime |-> 0, rounds |-> 0,
     fnCalls |-> 0, fnThrew |-> FALSE, wakeAt |-> 0, settledAt |-> 0,
     outcome |-> pending, exact |-> TRUE]

\* a timeout error that names the inner retry timeout
truthyTimeoutErrorNamesRetryTimeout(o) ==
    jsError(sErrorName,
            sTruthyTimeoutPrefix \o numberToString(o.retryOptions.timeout) \o sMs)

\* the Error retryUntilTruthy throws after its loop
truthyTimeoutError(o) ==
    jsError(sErrorName, sTruthyTimeoutPrefix \o numberToString(o.timeout) \o sMs)

settleOuter(o, result, t) ==
    [o EXCEPT !.pc = "done", !.outcome = result, !.settledAt = t]

\* a wait after a falsy result that lasts the inner retry's poll interval
truthyPollDelayInnerCadence(o, frame) ==
    IF "poll" \in o.retryOptions.keys
    THEN o.retryOptions.poll.ms
    ELSE objs["currentRetryOptions"].poll.ms

\* the delay of the wait after a falsy result
truthyPollDelay(o, frame) ==
    IF o.poll.raf
    THEN IF o.window THEN frame ELSE RafFallbackMs
    ELSE o.poll.ms

\* the options a caller passes to retryUntilTruthy: none, the outer timeout
\* alone (zero, negative, short, and a hundred milliseconds with the default
\* poll),
\* both kinds of outer poll, inner timeouts below and above the outer
\* timeout, each kind of retryErrorMatch (the empty string and a pattern that
\* the text of a thrown null matches included), and retryDisable
TruthyInputs ==
    { truthyPartial({}, 0, pollMs(0), 0, 0, matchString(<<>>), FALSE),
      truthyPartial({"timeout"}, 100, pollMs(0), 0, 0, matchString(<<>>), FALSE),
      truthyPartial({"timeout"}, 0, pollMs(0), 0, 0, matchString(<<>>), FALSE),
      truthyPartial({"timeout"}, 0 - 1, pollMs(0), 0, 0, matchString(<<>>), FALSE),
      truthyPartial({"timeout", "poll"}, 3, pollMs(2), 0, 0, matchString(<<>>), FALSE),
      truthyPartial({"timeout", "poll"}, 3, pollRaf, 0, 0, matchString(<<>>), FALSE),
      truthyPartial({"timeout", "poll", "retryErrorMatch"}, 3, pollMs(2), 0, 0,
                    matchRegExp("reFail"), FALSE),
      truthyPartial({"timeout", "poll", "retryErrorMatch"}, 3, pollMs(2), 0, 0,
                    matchString(<<>>), FALSE) }
    \cup { truthyPartial({"timeout", "poll", "retryPoll", "retryTimeout", "retryErrorMatch"},
                         3, pollMs(2), 1, rt, matchString(sFail), FALSE) : rt \in {2, 8} }
    \cup { truthyPartial({"timeout", "poll", "retryPoll", "retryTimeout", "retryErrorMatch"},
                         3, pollMs(2), 1, 2, matchString(sNull), FALSE) }
    \cup { truthyPartial({"timeout", "poll", "retryErrorMatch", "retryDisable"},
                         3, pollMs(2), 0, 0, matchString(sFail), rd) : rd \in BOOLEAN }

\* the options a caller passes to setRetryOptions before a retryUntilTruthy
\* call: a short timeout and poll, and errorMatch 'fail'
TruthySetInputs ==
    { partial({"timeout", "poll", "errorMatch"}, 2, pollMs(1), matchString(sFail), FALSE) }

\* the options installed before two concurrent calls
LiveSetInputs ==
    { partial({"timeout", "poll", "errorMatch"}, 2, pollMs(1), matchRegExp("reFailG"), FALSE) }

\* the options other code installs while the calls are in flight
InFlightSetInputs ==
    { partial({"timeout", "poll", "errorMatch"}, 50, pollMs(20), matchString(sFail), FALSE) }

\* the options of two concurrent calls: none, and a timeout of their own
LiveInputs ==
    { partial({}, 0, pollMs(0), matchString(<<>>), FALSE),
      partial({"timeout"}, 2, pollMs(0), matchString(<<>>), FALSE) }

\* what fn throws in two concurrent calls
LiveThrown == { jsError(sErrorName, sFail), jsError(sErrorName, sUnexpected) }

\* the options of the calls whose invocations are counted: timeouts at,
\* next to and between the multiples of the default poll of 200
CountInputs ==
    { partial(keys, t, pollMs(0), matchString(sFail), FALSE) :
        keys \in {{"timeout"}, {"timeout", "errorMatch"}},
        t \in {0, 50, 400, 401, 1000} }

\* ------------------------------------------ an addTimeoutToPromise() call
\* the default of the timeoutMs parameter
DefaultTimeoutMs == 5000

\* the invocation: its arguments, the due time of its timer, whether the
\* timer callback has run, the wrapped promise, the returned promise, and
\* the event that came first
idleTimed ==
    [pc |-> "idle", timeoutMs |-> 0, timeoutMessage |-> jsUndefined, due |-> 0,
     timerDone |-> FALSE, promise |-> pending, outcome |-> pending,
     first |-> "none"]

\* the Error the timer callback rejects with
timedTimeoutError(t) ==
    IF truthy(t.timeoutMessage)
    THEN jsError(sErrorName, t.timeoutMessage.s)
    ELSE jsError(sErrorName, sTimeoutAfterLower \o numberToString(t.timeoutMs) \o sMs)

\* the then / catch callbacks of the wrapped promise run: resolve(result) or
\* reject(error), which do nothing to a promise that is settled
deliver(t) ==
    IF t.promise.status # "pending" /\ t.outcome.status = "pending"
    THEN [t EXCEPT !.outcome = t.promise, !.first = "promise"]
    ELSE t

\* the wrapped promises: pending, resolved and rejected
PromiseInputs ==
    { pending, resolved(jsString(sSuccess)), rejected(jsError(sErrorName, sFail)) }

\* timeoutMs: left out, 0 and 100
TimeoutMsInputs ==
    { [given |-> FALSE, ms |-> 0], [given |-> TRUE, ms |-> 0], [given |-> TRUE, ms |-> 100] }

\* timeoutMessage: left out, the empty string and a text
TimeoutMessageInputs == { jsUndefined, jsString(<<>>), jsString(sUnexpected) }

\* ------------------------------------------------- stubbed dialog methods
\* a pattern of a matcher: undefined, a string, or a RegExp serialized as
\* its source and flags (of the flags, i is modelled; the RegExp is built
\* anew for every test, so its lastIndex is 0)
noPattern == [kind |-> "undefined", s |-> <<>>, ignoreCase |-> FALSE]
stringPattern(str) == [kind |-> "string", s |-> str, ignoreCase |-> FALSE]
regExpPattern(source, i) == [kind |-> "regexp", s |-> source, ignoreCase |-> i]

\* an optional string of the dialog options: undefined or a string
noValue == [def |-> FALSE, s |-> <<>>]
stringValue(str) == [def |-> TRUE, s |-> str]

\* matchesPattern(value, pattern), for a literal RegExp source
matchesPattern(value, pattern) ==
    IF pattern.kind = "undefined" THEN TRUE
    ELSE IF ~value.def THEN FALSE
    ELSE IF pattern.kind = "string" THEN value.s = pattern.s
    ELSE IF pattern.ignoreCase
         THEN includes(toLowerCase(value.s), toLowerCase(pattern.s))
         ELSE includes(value.s, pattern.s)

\* the options of a dialog call: undefined, or an object with a message and
\* maybe a buttons array (type, title, detail and checkboxLabel are matched
\* the way message is)
noOptions == [def |-> FALSE, message |-> noValue, hasButtons |-> FALSE, buttons |-> <<>>]
boxOptions(message, hasButtons, buttons) ==
    [def |-> TRUE, message |-> message, hasButtons |-> hasButtons, buttons |-> buttons]

\* matchesMessageBox(options, matcher)
matchesMessageBox(options, matcher) ==
    IF ~options.def THEN TRUE
    ELSE IF ~matchesPattern(options.message, matcher.message) THEN FALSE
    ELSE IF matcher.buttons.kind # "undefined" /\ options.hasButtons
    THEN \E k \in 1..Len(options.buttons) :
            matchesPattern(stringValue(options.buttons[k]), matcher.buttons)
    ELSE TRUE

\* the value a stubbed method returns: showMessageBox an object, and
\* showMessageBoxSync the number of a button
boxValue(response, checkboxChecked) ==
    [number |-> FALSE, response |-> response, checkboxChecked |-> checkboxChecked]
syncValue(response) ==
    [number |-> TRUE, response |-> response, checkboxChecked |-> FALSE]

\* dialogMatcherDefaults
dialogMatcherDefaults(method) ==
    IF method = "showMessageBox" THEN boxValue(0, FALSE) ELSE syncValue(0)

\* a stub as the caller writes it: value has the keys given
stubOf(method, message, buttons, keys, response, checkboxChecked) ==
    [method |-> method,
     matcher |-> [message |-> message, buttons |-> buttons],
     value |-> [keys |-> keys, response |-> response,
                checkboxChecked |-> checkboxChecked]]

\* serializeMatcherStub(stub): the value spread over the default of the
\* method, or (showMessageBoxSync) the value ?? the default
serializeMatcherStub(stub) ==
    LET d == dialogMatcherDefaults(stub.method)
        v == stub.value
    IN  [method |-> stub.method,
         matcher |-> stub.matcher,
         value |->
           IF stub.method = "showMessageBox"
           THEN boxValue(IF "response" \in v.keys THEN v.response ELSE d.response,
                         IF "checkboxChecked" \in v.keys THEN v.checkboxChecked
                         ELSE d.checkboxChecked)
           ELSE IF "response" \in v.keys THEN syncValue(v.response) ELSE d]

DialogMethods == {"showMessageBox", "showMessageBoxSync"}

\* the result of a dialog call
noResult == [status |-> "none", value |-> boxValue(0, FALSE), error |-> jsUndefined]
returned(v) == [status |-> "returned", value |-> v, error |-> jsUndefined]
thrown(e) == [status |-> "thrown", value |-> boxValue(0, FALSE), error |-> e]

\* a stubbed method that returns the value of the last stub that matches
stubbedMethodLastWins(stubs, throwOnUnmatched, method, options) ==
    LET hits == {k \in 1..Len(stubs) : matchesMessageBox(options, stubs[k].matcher)}
    IN  IF hits # {}
        THEN returned(stubs[CHOOSE k \in hits : \A h \in hits : h <= k].value)
        ELSE IF throwOnUnmatched
        THEN thrown(jsError(sErrorName, sNoMatchingStub))
        ELSE returned(dialogMatcherDefaults(method))

\* the function stubDialogMatchers installs as dialog[method]: the value of
\* the first stub that matches, else the error (its message goes on with the
\* name of the method and the options' JSON) or the default
stubbedMethod(stubs, throwOnUnmatched, method, options) ==
    LET hits == {k \in 1..Len(stubs) : matchesMessageBox(options, stubs[k].matcher)}
    IN  IF hits # {}
        THEN returned(stubs[minOf(hits)].value)
        ELSE IF throwOnUnmatched
        THEN thrown(jsError(sErrorName, sNoMatchingStub))
        ELSE returned(dialogMatcherDefaults(method))

\* the dialog module: for each method whether it is stubbed, with which
\* serialized stubs and throwOnUnmatched, and the list that was passed to
\* the stubDialogMatchers call that stubbed it; and the latest call with
\* its result
idleDialog ==
    [installed |-> [m \in DialogMethods |->
                      [stubbed |-> FALSE, stubs |-> <<>>, throwOnUnmatched |-> FALSE,
                       passed |-> <<>>]],
     method |-> "none", options |-> noOptions, result |-> noResult]

\* the stubs a test passes
StubInputs ==
    { stubOf("showMessageBox", noPattern, noPattern, {"response"}, 2, FALSE),
      stubOf("showMessageBox", noPattern, regExpPattern(sDeleteLower, TRUE),
             {"response", "checkboxChecked"}, 1, TRUE),
      stubOf("showMessageBox", stringPattern(sFail), stringPattern(sDelete), {}, 0, FALSE),
      stubOf("showMessageBoxSync", noPattern, stringPattern(sDelete), {"response"}, 1, FALSE) }

\* the options the application shows a message box with
DialogOptionInputs ==
    { noOptions,
      boxOptions(stringValue(sFail), FALSE, <<>>),
      boxOptions(stringValue(sFail), TRUE, <<>>),
      boxOptions(stringValue(sFail), TRUE, <<sCancel, sDelete>>),
      boxOptions(noValue, TRUE, <<sCancel>>) }

\* ------------------------------------------- a waitForWindowByMatcher() call
\* the defaults of options.timeout and options.interval
DefaultWaitTimeout == 10000
DefaultWaitInterval == 200

\* electronApp.windows(): the pages in the order they were opened, each with
\* what the matcher makes of it at the moment
noPages == <<>>

\* the invocation: its timeout and interval, the time of the call, the number
\* of windows windows() returned at the call and how many of them the first
\* loop has examined, the start time of the poller, the due times of the
\* poller's interval timer and of the timeout of waitForEvent, whether the
\* interval is set (polling) and the listener of waitForEvent registered
\* (listening), and the outcome (page: the place of the page in windows());
\* early: from the start of the race on, for every window, whether the
\* matcher has returned true for it since more than one interval before the
\* timeout of the race expires; lateMatcher: the matcher was invoked after the returned promise
\* had settled
idleWaiter ==
    [pc |-> "idle", timeout |-> 0, interval |-> 0, calledAt |-> 0,
     snapshot |-> 0, scanned |-> 0, startTime |-> 0,
     nextTick |-> 0, eventDue |-> 0, polling |-> FALSE, listening |-> FALSE,
     early |-> <<>>, lateMatcher |-> FALSE,
     outcome |-> [status |-> "pending", page |-> 0, error |-> jsUndefined]]

\* the first page the matcher returns true for, 0 when there is none
firstMatch(ps) ==
    IF \E k \in 1..Len(ps) : ps[k]
    THEN minOf({k \in 1..Len(ps) : ps[k]})
    ELSE 0

\* resolve(page) / return page: a promise that has settled stays as it is
\* (the history of the matcher's answers ends when the promise settles)
resolveWaiter(w, k) ==
    IF w.pc = "done" THEN w
    ELSE [w EXCEPT !.pc = "done", !.early = <<>>,
                   !.outcome = [status |-> "resolved", page |-> k, error |-> jsUndefined]]

\* reject(e): a promise that has settled stays as it is
rejectWaiter(w, e) ==
    IF w.pc = "done" THEN w
    ELSE [w EXCEPT !.pc = "done", !.early = <<>>,
                   !.outcome = [status |-> "rejected", page |-> 0, error |-> e]]

\* return Promise.race([...]) at time t, the windows being ps: waitForEvent
\* registers its listener and its timeout, the poller notes its start time
\* and sets its interval (the first loop takes no time on the clock: a window
\* the matcher returns true for now has been one since t at the latest)
startRace(w, t, ps) ==
    [w EXCEPT !.pc = "racing", !.startTime = t,
              !.nextTick = t + w.interval, !.eventDue = t + w.timeout,
              !.polling = TRUE, !.listening = TRUE,
              !.early = [k \in 1..Len(ps) |-> ps[k] /\ t + w.interval < t + w.timeout]]

\* the matcher's answer for window k (an open window or the one that opens)
\* is matches from time t on
answerDates(w, k, t, matches) ==
    CASE w.pc = "racing" ->
           LET e == matches /\ t + w.interval < w.startTime + w.timeout
           IN  [w EXCEPT !.early = IF k > Len(@) THEN Append(@, e) ELSE [@ EXCEPT ![k] = e]]
      [] OTHER -> w

\* --------------------------------------------------------------- actions
noArg == partial({}, 0, pollMs(0), matchString(<<>>), FALSE)

\* name of the operation, the call it belongs to (0: none), its options
\* argument and the value fn returned or threw
op(name, id, arg, val) == [name |-> name, id |-> id, arg |-> arg, val |-> val]

\* the spread { ...o }: a new object with o's field values
spread(o) ==
    [timeout |-> o.timeout, poll |-> o.poll, errorMatch |-> o.errorMatch,
     disable |-> o.disable]

\* no retry call has been made yet: the caller is still configuring
Configuring == outer.pc = "idle" /\ \A i \in CallIds : call[i].pc = "idle"

Init ==
    /\ objs = [id \in ObjIds |-> spread(retryDefaults)]
    /\ arrays = [id \in ArrayIds |->
                   IF id = "defaultList" THEN defaultErrorMatch ELSE <<sFailUpper>>]
    /\ lastIndex = [id \in RegExpIds |-> 0]
    /\ handle = "none"
    /\ heldFrom = "none"
    /\ now = 0
    /\ ticks = 0
    /\ call = [i \in CallIds |-> idleCall]
    /\ outer = idleOuter
    /\ timed = idleTimed
    /\ dialog = idleDialog
    /\ waiter = idleWaiter
    /\ pages = noPages
    /\ lastOp = op("init", 0, noArg, jsUndefined)

\* a setRetryOptions that starts from the defaults, not from the current options
SetRetryOptionsFromDefaults(options) ==
    /\ Configuring
    /\ objs' = [objs EXCEPT !["currentRetryOptions"] =
                               objectAssign(spread(retryDefaults), options)]
    /\ handle' = "currentRetryOptions"
    /\ heldFrom' = "setRetryOptions"
    /\ lastOp' = op("setRetryOptions", 0, options, jsUndefined)
    /\ UNCHANGED <<arrays, lastIndex, now, ticks, call, outer, timed, dialog, waiter, pages>>

\* setRetryOptions(options): returns currentRetryOptions itself
SetRetryOptions(options) ==
    /\ Configuring
    /\ objs' = [objs EXCEPT !["currentRetryOptions"] = objectAssign(@, options)]
    /\ handle' = "currentRetryOptions"
    /\ heldFrom' = "setRetryOptions"
    /\ lastOp' = op("setRetryOptions", 0, options, jsUndefined)
    /\ UNCHANGED <<arrays, lastIndex, now, ticks, call, outer, timed, dialog, waiter, pages>>

\* a getRetryOptions that returns currentRetryOptions itself
GetRetryOptionsLive ==
    /\ Configuring
    /\ handle' = "currentRetryOptions"
    /\ heldFrom' = "getRetryOptions"
    /\ lastOp' = op("getRetryOptions", 0, noArg, jsUndefined)
    /\ UNCHANGED <<objs, arrays, lastIndex, now, ticks, call, outer, timed, dialog, waiter, pages>>

\* getRetryOptions(): returns a new object
GetRetryOptions ==
    /\ Configuring
    /\ objs' = [objs EXCEPT !["snapshot"] = spread(objs["currentRetryOptions"])]
    /\ handle' = "snapshot"
    /\ heldFrom' = "getRetryOptions"
    /\ lastOp' = op("getRetryOptions", 0, noArg, jsUndefined)
    /\ UNCHANGED <<arrays, lastIndex, now, ticks, call, outer, timed, dialog, waiter, pages>>

\* a resetRetryOptions that leaves the disable field alone
ResetRetryOptionsKeepsDisable ==
    /\ Configuring
    /\ objs' = [objs EXCEPT !["currentRetryOptions"] =
                   objectAssign(@, [allFields(objs["retryDefaults"]) EXCEPT
                                      !.keys = {"timeout", "poll", "errorMatch"}])]
    /\ lastOp' = op("resetRetryOptions", 0, noArg, jsUndefined)
    /\ UNCHANGED <<arrays, lastIndex, handle, heldFrom, now, ticks, call, outer, timed, dialog, waiter, pages>>

\* resetRetryOptions(): returns nothing
ResetRetryOptions ==
    /\ Configuring
    /\ objs' = [objs EXCEPT !["currentRetryOptions"] =
                               objectAssign(@, allFields(objs["retryDefaults"]))]
    /\ lastOp' = op("resetRetryOptions", 0, noArg, jsUndefined)
    /\ UNCHANGED <<arrays, lastIndex, handle, heldFrom, now, ticks, call, outer, timed, dialog, waiter, pages>>

\* setRetryOptions(options) run by other code while a retry call is awaiting
\* fn or waiting between two attempts
SetRetryOptionsInFlight(options) ==
    /\ \E i \in CallIds : call[i].pc \in {"inFn", "waiting"}
    /\ objs' = [objs EXCEPT !["currentRetryOptions"] = objectAssign(@, options)]
    /\ handle' = "currentRetryOptions"
    /\ heldFrom' = "setRetryOptions"
    /\ lastOp' = op("setRetryOptions", 0, options, jsUndefined)
    /\ UNCHANGED <<arrays, lastIndex, now, ticks, call, outer, timed, dialog, waiter, pages>>

\* resetRetryOptions() run by other code while a retry call is awaiting fn
\* or waiting between two attempts
ResetRetryOptionsInFlight ==
    /\ \E i \in CallIds : call[i].pc \in {"inFn", "waiting"}
    /\ objs' = [objs EXCEPT !["currentRetryOptions"] =
                               objectAssign(@, allFields(objs["retryDefaults"]))]
    /\ lastOp' = op("resetRetryOptions", 0, noArg, jsUndefined)
    /\ UNCHANGED <<arrays, lastIndex, handle, heldFrom, now, ticks, call, outer, timed, dialog, waiter, pages>>

\* the caller assigns to a field of the object it holds
AssignField(assignment) ==
    /\ Configuring
    /\ handle # "none"
    /\ objs' = [objs EXCEPT ![handle] = objectAssign(@, assignment)]
    /\ lastOp' = op("assignField", 0, assignment, jsUndefined)
    /\ UNCHANGED <<arrays, lastIndex, handle, heldFrom, now, ticks, call, outer, timed, dialog, waiter, pages>>

\* the caller pushes a string onto the errorMatch list of the object it holds
PushErrorMatch ==
    /\ Configuring
    /\ handle # "none"
    /\ objs[handle].errorMatch.kind = "array"
    /\ Len(arrays[objs[handle].errorMatch.ref]) < MaxArrayLen
    /\ arrays' = [arrays EXCEPT ![objs[handle].errorMatch.ref] = Append(@, sUnexpected)]
    /\ lastOp' = op("pushErrorMatch", 0, noArg, jsUndefined)
    /\ UNCHANGED <<objs, lastIndex, handle, heldFrom, now, ticks, call, outer, timed, dialog, waiter, pages>>

\* a retry that overlays the options on retryDefaults, not on the current options
RetryCallFromDefaults(i, options, window) ==
    /\ call[i].pc = "idle"
    /\ LET merged == objectAssign(spread(objs["retryDefaults"]), options)
       IN  /\ window => merged.poll.raf
           /\ call' = [call EXCEPT ![i] =
                        loopHead([idleCall EXCEPT !.options = options,
                                                  !.poll = merged.poll,
                                                  !.timeout = merged.timeout,
                                                  !.errorMatch = merged.errorMatch,
                                                  !.window = window,
                                                  !.startTime = now], now)]
    /\ lastOp' = op("retry", i, options, jsUndefined)
    /\ UNCHANGED <<objs, arrays, lastIndex, handle, heldFrom, now, ticks, outer, timed, dialog, waiter, pages>>

\* retry(fn, options) up to its first await: the options are resolved, the
\* start time is taken and fn is invoked for the first time.  window: the
\* call runs where window.requestAnimationFrame exists (it is looked at for
\* poll 'raf' only)
RetryCall(i, options, window) ==
    /\ call[i].pc = "idle"
    /\ LET merged == objectAssign(spread(objs["currentRetryOptions"]), options)
       IN  /\ window => merged.poll.raf
           /\ call' = [call EXCEPT ![i] =
                        loopHead([idleCall EXCEPT !.options = options,
                                                  !.poll = merged.poll,
                                                  !.timeout = merged.timeout,
                                                  !.errorMatch = merged.errorMatch,
                                                  !.window = window,
                                                  !.startTime = now], now)]
    /\ lastOp' = op("retry", i, options, jsUndefined)
    /\ UNCHANGED <<objs, arrays, lastIndex, handle, heldFrom, now, ticks, outer, timed, dialog, waiter, pages>>

\* fn returns v (or its promise resolves with v): retry returns it
FnReturn(i, v) ==
    /\ call[i].pc = "inFn"
    /\ call' = [call EXCEPT ![i] =
                 settle([@ EXCEPT !.exact = @ /\ (now = call[i].fnStart)], resolved(v))]
    /\ lastOp' = op("fnReturn", i, noArg, v)
    /\ UNCHANGED <<objs, arrays, lastIndex, handle, heldFrom, now, ticks, outer, timed, dialog, waiter, pages>>

\* fn throws err (or its promise rejects with err): the catch block runs
FnThrow(i, err, frame) ==
    /\ call[i].pc = "inFn"
    /\ LET es == errToString(err)
           cl == IF es.tag = "throws" THEN [verdict |-> "throws", lastIndex |-> lastIndex]
                 ELSE classify(es, call[i].errorMatch, arrays, lastIndex)
       IN  /\ call' = [call EXCEPT ![i] = catchBlock(@, err, now, cl.verdict, frame)]
           /\ lastIndex' = cl.lastIndex
    /\ lastOp' = op("fnThrow", i, noArg, err)
    /\ UNCHANGED <<objs, arrays, handle, heldFrom, now, ticks, outer, timed, dialog, waiter, pages>>

\* a timer callback that reads the current options again before the loop head
TimerFireRereadsOptions(i) ==
    /\ call[i].pc = "waiting"
    /\ now >= call[i].wakeAt
    /\ call[i].tries < MaxTries \/ ~shouldContinue(call[i], now)
    /\ LET merged == objectAssign(spread(objs["currentRetryOptions"]), call[i].options)
       IN  call' = [call EXCEPT ![i] =
                      loopHead([@ EXCEPT !.exact = @ /\ (now = call[i].wakeAt),
                                         !.poll = merged.poll,
                                         !.timeout = merged.timeout,
                                         !.errorMatch = merged.errorMatch], now)]
    /\ lastOp' = op("timerFire", i, noArg, jsUndefined)
    /\ UNCHANGED <<objs, arrays, lastIndex, handle, heldFrom, now, ticks, outer, timed, dialog, waiter, pages>>

\* the poll timer of a waiting call fires, at its due time or later: the loop
\* head runs (a further attempt is made while fewer than MaxTries were)
TimerFire(i) ==
    /\ call[i].pc = "waiting"
    /\ now >= call[i].wakeAt
    /\ call[i].tries < MaxTries \/ ~shouldContinue(call[i], now)
    /\ call' = [call EXCEPT ![i] =
                 loopHead([@ EXCEPT !.exact = @ /\ (now = call[i].wakeAt)], now)]
    /\ lastOp' = op("timerFire", i, noArg, jsUndefined)
    /\ UNCHANGED <<objs, arrays, lastIndex, handle, heldFrom, now, ticks, outer, timed, dialog, waiter, pages>>

InFlight == \E i \in CallIds : call[i].pc \in {"inFn", "waiting"}

\* a clock step at which a call whose timeout has elapsed is rejected even
\* while fn is pending
TickInterruptsAttempt ==
    /\ InFlight
    /\ ticks < MaxTicks
    /\ now' = now + 1
    /\ ticks' = ticks + 1
    /\ call' = [i \in CallIds |->
                 IF call[i].pc = "inFn" /\ now + 1 - call[i].startTime >= call[i].timeout
                 THEN settle(call[i], rejected(timeoutError(call[i])))
                 ELSE call[i]]
    /\ lastOp' = op("tick", 0, noArg, jsUndefined)
    /\ UNCHANGED <<objs, arrays, lastIndex, handle, heldFrom, outer, timed, dialog, waiter, pages>>

\* one millisecond passes while a call is in flight
Tick ==
    /\ InFlight
    /\ ticks < MaxTicks
    /\ now' = now + 1
    /\ ticks' = ticks + 1
    /\ lastOp' = op("tick", 0, noArg, jsUndefined)
    /\ UNCHANGED <<objs, arrays, lastIndex, handle, heldFrom, call, outer, timed, dialog, waiter, pages>>

\* the clock reaches the due time of the earliest timer still ahead
AdvanceToTimer ==
    /\ \E i \in CallIds : call[i].pc = "waiting" /\ call[i].wakeAt > now
    /\ now' = minOf({call[i].wakeAt : i \in {j \in CallIds :
                        call[j].pc = "waiting" /\ call[j].wakeAt > now}})
    /\ lastOp' = op("advanceToTimer", 0, noArg, jsUndefined)
    /\ UNCHANGED <<objs, arrays, lastIndex, handle, heldFrom, ticks, call, outer, timed, dialog, waiter, pages>>

\* retry(fn, retryOptions) as retryUntilTruthy calls it at time t: the
\* invocation up to its first await
retryInvocation(options, window, t) ==
    LET merged == objectAssign(spread(objs["currentRetryOptions"]), options)
    IN  loopHead([idleCall EXCEPT !.options = options,
                                  !.poll = merged.poll,
                                  !.timeout = merged.timeout,
                                  !.errorMatch = merged.errorMatch,
                                  !.window = window /\ merged.poll.raf,
                                  !.startTime = t], t)

\* a loop head that starts the first inner retry whatever the deadline
TruthyLoopHeadFirstPass(o) ==
    IF o.rounds = 0 \/ now < o.timeoutTime
    THEN /\ outer' = [o EXCEPT !.pc = "inRetry", !.rounds = @ + 1]
         /\ call' = [call EXCEPT ![1] = retryInvocation(o.retryOptions, o.window, now)]
    ELSE /\ outer' = settleOuter(o, rejected(truthyTimeoutError(o)), now)
         /\ call' = call

\* the head of retryUntilTruthy's while loop: an inner retry is started while
\* the deadline is ahead, else the timeout error is thrown
TruthyLoopHead(o) ==
    IF now < o.timeoutTime
    THEN /\ outer' = [o EXCEPT !.pc = "inRetry", !.rounds = @ + 1]
         /\ call' = [call EXCEPT ![1] = retryInvocation(o.retryOptions, o.window, now)]
    ELSE /\ outer' = settleOuter(o, rejected(truthyTimeoutError(o)), now)
         /\ call' = call

\* retryUntilTruthy(fn, options) up to its first await
TruthyCall(options, window) ==
    /\ Configuring
    /\ LET timeout == IF "timeout" \in options.keys THEN options.timeout ELSE 5000
           poll == IF "poll" \in options.keys THEN options.poll ELSE pollMs(100)
       IN  /\ window => poll.raf
           /\ TruthyLoopHead([idleOuter EXCEPT !.options = options,
                                               !.timeout = timeout,
                                               !.poll = poll,
                                               !.retryOptions = retryOptionsOf(options),
                                               !.window = window,
                                               !.startTime = now,
                                               !.timeoutTime = now + timeout])
    /\ lastOp' = op("retryUntilTruthy", 0, noArg, jsUndefined)
    /\ UNCHANGED <<objs, arrays, lastIndex, handle, heldFrom, now, ticks, timed, dialog, waiter, pages>>

\* a continuation that waits and goes on whatever the inner retry returned
TruthyResumeIgnoresResult(frame) ==
    /\ outer.pc = "inRetry"
    /\ call[1].pc = "done"
    /\ LET r == call[1].outcome
           o == [outer EXCEPT !.fnCalls = @ + call[1].fnCalls,
                              !.fnThrew = @ \/ call[1].tries > 1 \/ lastOp.name # "fnReturn",
                              !.exact = @ /\ call[1].exact]
       IN  outer' = IF r.status = "rejected" THEN settleOuter(o, rejected(r.value), now)
                    ELSE [o EXCEPT !.pc = "waiting",
                                   !.wakeAt = now + truthyPollDelay(o, frame)]
    /\ call' = IF outer'.pc = "waiting" THEN [call EXCEPT ![1] = idleCall] ELSE call
    /\ lastOp' = op("truthyResume", 0, noArg, call[1].outcome.value)
    /\ UNCHANGED <<objs, arrays, lastIndex, handle, heldFrom, now, ticks, timed, dialog, waiter, pages>>

\* a continuation that swallows the inner retry's rejection
TruthyResumeSwallowsError(frame) ==
    /\ outer.pc = "inRetry"
    /\ call[1].pc = "done"
    /\ LET r == call[1].outcome
           o == [outer EXCEPT !.fnCalls = @ + call[1].fnCalls,
                              !.fnThrew = @ \/ call[1].tries > 1 \/ lastOp.name # "fnReturn",
                              !.exact = @ /\ call[1].exact]
       IN  outer' = IF r.status = "resolved" /\ truthy(r.value)
                    THEN settleOuter(o, resolved(r.value), now)
                    ELSE [o EXCEPT !.pc = "waiting",
                                   !.wakeAt = now + truthyPollDelay(o, frame)]
    /\ call' = IF outer'.pc = "waiting" THEN [call EXCEPT ![1] = idleCall] ELSE call
    /\ lastOp' = op("truthyResume", 0, noArg, call[1].outcome.value)
    /\ UNCHANGED <<objs, arrays, lastIndex, handle, heldFrom, now, ticks, timed, dialog, waiter, pages>>

\* a continuation that looks at the deadline before returning a truthy result
TruthyResumeChecksDeadline(frame) ==
    /\ outer.pc = "inRetry"
    /\ call[1].pc = "done"
    /\ LET r == call[1].outcome
           o == [outer EXCEPT !.fnCalls = @ + call[1].fnCalls,
                              !.fnThrew = @ \/ call[1].tries > 1 \/ lastOp.name # "fnReturn",
                              !.exact = @ /\ call[1].exact]
       IN  outer' = IF r.status = "rejected" THEN settleOuter(o, rejected(r.value), now)
                    ELSE IF ~(now < o.timeoutTime)
                    THEN settleOuter(o, rejected(truthyTimeoutError(o)), now)
                    ELSE IF truthy(r.value) THEN settleOuter(o, resolved(r.value), now)
                    ELSE [o EXCEPT !.pc = "waiting",
                                   !.wakeAt = now + truthyPollDelay(o, frame)]
    /\ call' = IF outer'.pc = "waiting" THEN [call EXCEPT ![1] = idleCall] ELSE call
    /\ lastOp' = op("truthyResume", 0, noArg, call[1].outcome.value)
    /\ UNCHANGED <<objs, arrays, lastIndex, handle, heldFrom, now, ticks, timed, dialog, waiter, pages>>

\* the inner retry has settled and retryUntilTruthy goes on: a rejection
\* propagates, a truthy result is returned, a falsy one starts the wait (the
\* inner retry's invocation is then over and its record is dropped)
TruthyResume(frame) ==
    /\ outer.pc = "inRetry"
    /\ call[1].pc = "done"
    /\ LET r == call[1].outcome
           o == [outer EXCEPT !.fnCalls = @ + call[1].fnCalls,
                              !.fnThrew = @ \/ call[1].tries > 1 \/ lastOp.name # "fnReturn",
                              !.exact = @ /\ call[1].exact]
       IN  outer' = IF r.status = "rejected" THEN settleOuter(o, rejected(r.value), now)
                    ELSE IF truthy(r.value) THEN settleOuter(o, resolved(r.value), now)
                    ELSE [o EXCEPT !.pc = "waiting",
                                   !.wakeAt = now + truthyPollDelay(o, frame)]
    /\ call' = IF outer'.pc = "waiting" THEN [call EXCEPT ![1] = idleCall] ELSE call
    /\ lastOp' = op("truthyResume", 0, noArg, call[1].outcome.value)
    /\ UNCHANGED <<objs, arrays, lastIndex, handle, heldFrom, now, ticks, timed, dialog, waiter, pages>>

\* the timer of the wait after a falsy result fires, at its due time or
\* later: the loop head runs (a further inner retry is started while fewer
\* than MaxRounds were)
TruthyTimerFire ==
    /\ outer.pc = "waiting"
    /\ now >= outer.wakeAt
    /\ outer.rounds < MaxRounds \/ ~(now < outer.timeoutTime)
    /\ TruthyLoopHead([outer EXCEPT !.exact = @ /\ (now = outer.wakeAt)])
    /\ lastOp' = op("truthyTimerFire", 0, noArg, jsUndefined)
    /\ UNCHANGED <<objs, arrays, lastIndex, handle, heldFrom, now, ticks, timed, dialog, waiter, pages>>

\* one millisecond passes while retryUntilTruthy waits after a falsy result
TruthyTick ==
    /\ outer.pc = "waiting"
    /\ ticks < MaxTicks
    /\ now' = now + 1
    /\ ticks' = ticks + 1
    /\ lastOp' = op("tick", 0, noArg, jsUndefined)
    /\ UNCHANGED <<objs, arrays, lastIndex, handle, heldFrom, call, outer, timed, dialog, waiter, pages>>

\* the clock reaches the due time of retryUntilTruthy's timer
AdvanceToTruthyTimer ==
    /\ outer.pc = "waiting"
    /\ outer.wakeAt > now
    /\ now' = outer.wakeAt
    /\ lastOp' = op("advanceToTimer", 0, noArg, jsUndefined)
    /\ UNCHANGED <<objs, arrays, lastIndex, handle, heldFrom, ticks, call, outer, timed, dialog, waiter, pages>>

\* the retry engine under a configuration installed beforehand
Next ==
    \/ \E options \in SetInputs : SetRetryOptions(options)
    \/ ResetRetryOptions
    \/ \E options \in OptionInputs, window \in BOOLEAN : RetryCall(1, options, window)
    \/ \E v \in ReturnValues : FnReturn(1, v)
    \/ \E err \in ThrownValues :
         \E frame \in (IF call[1].window THEN FrameDelays ELSE {0}) : FnThrow(1, err, frame)
    \/ TimerFire(1)
    \/ Tick
    \/ AdvanceToTimer

Spec == Init /\ [][Next]_vars

\* the configuration accessors, the caller's use of what they return, and the
\* configuration a retry call then resolves
NextConfig ==
    \/ \E options \in SetInputs : SetRetryOptions(options)
    \/ GetRetryOptions
    \/ ResetRetryOptions
    \/ \E assignment \in AssignInputs : AssignField(assignment)
    \/ PushErrorMatch
    \/ \E options \in {noArg, partial({"timeout"}, 50, pollMs(0), matchString(<<>>), FALSE)} :
         RetryCall(1, options, FALSE)

SpecConfig == Init /\ [][NextConfig]_vars

\* retry calls made after a caller has used the object getRetryOptions()
\* returned: the configuration the calls run with is the one the module holds
\* at that moment
NextShared ==
    \/ GetRetryOptions
    \/ PushErrorMatch
    \/ ResetRetryOptions
    \/ \E options \in {noArg, partial({"timeout", "poll"}, 2, pollMs(1), matchString(<<>>), FALSE)} :
         RetryCall(1, options, FALSE)
    \/ \E v \in ReturnValues : FnReturn(1, v)
    \/ \E err \in ThrownValues : FnThrow(1, err, 0)
    \/ TimerFire(1)
    \/ AdvanceToTimer

SpecShared == Init /\ [][NextShared]_vars

\* two retry calls in flight together, their attempts and waits interleaved,
\* while other code sets and resets the options
NextLive ==
    \/ \E options \in LiveSetInputs : SetRetryOptions(options)
    \/ \E options \in InFlightSetInputs : SetRetryOptionsInFlight(options)
    \/ ResetRetryOptionsInFlight
    \/ \E i \in CallIds, options \in LiveInputs : RetryCall(i, options, FALSE)
    \/ \E i \in CallIds : FnReturn(i, jsString(sSuccess))
    \/ \E i \in CallIds, err \in LiveThrown : FnThrow(i, err, 0)
    \/ \E i \in CallIds : TimerFire(i)
    \/ AdvanceToTimer

SpecLive == Init /\ [][NextLive]_vars

\* retry calls under the default configuration in which fn settles at once
\* and every timer fires at its due time
NextCount ==
    \/ \E options \in CountInputs : RetryCall(1, options, FALSE)
    \/ \E v \in ReturnValues : FnReturn(1, v)
    \/ \E err \in ThrownValues : FnThrow(1, err, 0)
    \/ TimerFire(1)
    \/ AdvanceToTimer

SpecCount == Init /\ [][NextCount]_vars

\* --------------------------------------------------- clickMenuItemById
\* the options a caller passes to clickMenuItemById: none, disable false
\* (with and without a short timeout and poll), disable true, and an
\* errorMatch of its own
MenuOptionInputs ==
    { noArg,
      partial({"disable"}, 0, pollMs(0), matchString(<<>>), FALSE),
      partial({"disable"}, 0, pollMs(0), matchString(<<>>), TRUE),
      partial({"timeout", "poll", "disable"}, 2, pollMs(1), matchString(<<>>), FALSE),
      partial({"timeout", "poll"}, 2, pollMs(1), matchString(<<>>), FALSE),
      partial({"errorMatch"}, 0, pollMs(0), matchString(sFail), FALSE) }

\* what electronApp.evaluate rejects with: transient errors of the
\* connection, and the error the evaluated function throws for an unknown id
MenuThrown ==
    { jsError(sErrorName, sPromiseCollected),
      jsError(sErrorName, sFail),
      jsError(sErrorName, sMenuItemNotFound) }

\* a clickMenuItemById that hands the caller's options to retry as they are
ClickMenuItemByIdRetries(options) ==
    /\ Configuring
    /\ call' = [call EXCEPT ![1] = retryInvocation(options, FALSE, now)]
    /\ lastOp' = op("clickMenuItemById", 1, options, jsUndefined)
    /\ UNCHANGED <<objs, arrays, lastIndex, handle, heldFrom, now, ticks, outer, timed, dialog, waiter, pages>>

\* clickMenuItemById(electronApp, id, options) up to its first await:
\* retry(fn, { disable: true, ...options })
ClickMenuItemById(options) ==
    /\ Configuring
    /\ LET passed == partial(options.keys \cup {"disable"}, options.timeout, options.poll,
                             options.errorMatch,
                             IF "disable" \in options.keys THEN options.disable ELSE TRUE)
       IN  call' = [call EXCEPT ![1] = retryInvocation(passed, FALSE, now)]
    /\ lastOp' = op("clickMenuItemById", 1, options, jsUndefined)
    /\ UNCHANGED <<objs, arrays, lastIndex, handle, heldFrom, now, ticks, outer, timed, dialog, waiter, pages>>

\* clickMenuItemById under a configuration installed beforehand: the remote
\* evaluation returns what click() returned or rejects
NextMenu ==
    \/ \E options \in SetInputs : SetRetryOptions(options)
    \/ \E options \in MenuOptionInputs : ClickMenuItemById(options)
    \/ FnReturn(1, jsUndefined)
    \/ \E err \in MenuThrown : FnThrow(1, err, 0)
    \/ TimerFire(1)
    \/ Tick
    \/ AdvanceToTimer

SpecMenu == Init /\ [][NextMenu]_vars

\* ------------------------------------------------ electronWaitForFunction
\* the wait between two rounds of electronWaitForFunction
WaitForFunctionPollMs == 100

\* the options a caller passes to electronWaitForFunction (waitForMenuItem
\* and waitForMenuItemStatus pass none): none, a short timeout and poll with
\* an errorMatch, and disable
WaitForFunctionInputs ==
    { noArg,
      partial({"timeout", "poll", "errorMatch"}, 2, pollMs(1), matchString(sFail), FALSE),
      partial({"disable"}, 0, pollMs(0), matchString(<<>>), TRUE) }

\* electronWaitForFunction(electronApp, fn, arg, options) up to its first
\* await: retry(() => electronApp.evaluate(fn, arg), options); the invocation
\* is kept in outer (rounds: the retry calls started), with no deadline
ElectronWaitForFunction(options) ==
    /\ Configuring
    /\ outer' = [idleOuter EXCEPT !.pc = "inRetry", !.rounds = 1,
                                  !.retryOptions = options,
                                  !.poll = pollMs(WaitForFunctionPollMs),
                                  !.startTime = now]
    /\ call' = [call EXCEPT ![1] = retryInvocation(options, FALSE, now)]
    /\ lastOp' = op("electronWaitForFunction", 0, options, jsUndefined)
    /\ UNCHANGED <<objs, arrays, lastIndex, handle, heldFrom, now, ticks, timed, dialog, waiter, pages>>

\* the retry call has settled and the while condition is evaluated: a
\* rejection propagates, a truthy result ends the loop (the function returns
\* nothing), a falsy one starts the wait of 100 ms
WaitForFunctionResume ==
    /\ outer.pc = "inRetry"
    /\ call[1].pc = "done"
    /\ LET r == call[1].outcome
           o == [outer EXCEPT !.fnCalls = @ + call[1].fnCalls]
       IN  outer' = IF r.status = "rejected" THEN settleOuter(o, rejected(r.value), now)
                    ELSE IF truthy(r.value) THEN settleOuter(o, resolved(jsUndefined), now)
                    ELSE [o EXCEPT !.pc = "waiting", !.wakeAt = now + o.poll.ms]
    /\ call' = IF outer'.pc = "waiting" THEN [call EXCEPT ![1] = idleCall] ELSE call
    /\ lastOp' = op("waitForFunctionResume", 0, noArg, call[1].outcome.value)
    /\ UNCHANGED <<objs, arrays, lastIndex, handle, heldFrom, now, ticks, timed, dialog, waiter, pages>>

\* a timer callback that gives up once 100 ms have passed since the call
WaitForFunctionTimerFireWithDeadline ==
    /\ outer.pc = "waiting"
    /\ now >= outer.wakeAt
    /\ outer.rounds < MaxRounds
    /\ IF now - outer.startTime >= 100
       THEN /\ outer' = settleOuter(outer, rejected(truthyTimeoutError(outer)), now)
            /\ call' = call
       ELSE /\ outer' = [outer EXCEPT !.pc = "inRetry", !.rounds = @ + 1]
            /\ call' = [call EXCEPT ![1] = retryInvocation(outer.retryOptions, FALSE, now)]
    /\ lastOp' = op("waitForFunctionTimerFire", 0, noArg, jsUndefined)
    /\ UNCHANGED <<objs, arrays, lastIndex, handle, heldFrom, now, ticks, timed, dialog, waiter, pages>>

\* the timer of the wait fires: the while condition starts the next retry
\* call, whatever the time that has passed (a further one is started while
\* fewer than MaxRounds were)
WaitForFunctionTimerFire ==
    /\ outer.pc = "waiting"
    /\ now >= outer.wakeAt
    /\ outer.rounds < MaxRounds
    /\ outer' = [outer EXCEPT !.pc = "inRetry", !.rounds = @ + 1]
    /\ call' = [call EXCEPT ![1] = retryInvocation(outer.retryOptions, FALSE, now)]
    /\ lastOp' = op("waitForFunctionTimerFire", 0, noArg, jsUndefined)
    /\ UNCHANGED <<objs, arrays, lastIndex, handle, heldFrom, now, ticks, timed, dialog, waiter, pages>>

\* one electronWaitForFunction call: every evaluation returns or rejects,
\* the timers fire and the clock moves on
NextWaitForFunction ==
    \/ \E options \in WaitForFunctionInputs : ElectronWaitForFunction(options)
    \/ \E v \in ReturnValues : FnReturn(1, v)
    \/ \E err \in MenuThrown : FnThrow(1, err, 0)
    \/ TimerFire(1)
    \/ WaitForFunctionResume
    \/ WaitForFunctionTimerFire
    \/ AdvanceToTimer
    \/ AdvanceToTruthyTimer

SpecWaitForFunction == Init /\ [][NextWaitForFunction]_vars

\* retryUntilTruthy under a configuration installed beforehand; fn settles
\* at once and the inner retry's timers fire at their due time (Spec has the
\* late ones), retryUntilTruthy's own timer fires at its due time or later
NextTruthy ==
    \/ \E options \in TruthySetInputs : SetRetryOptions(options)
    \/ \E options \in TruthyInputs, window \in BOOLEAN : TruthyCall(options, window)
    \/ \E v \in ReturnValues : FnReturn(1, v)
    \/ \E err \in ThrownValues : FnThrow(1, err, 0)
    \/ TimerFire(1)
    \/ \E frame \in (IF outer.window THEN FrameDelays ELSE {0}) : TruthyResume(frame)
    \/ TruthyTimerFire
    \/ TruthyTick
    \/ AdvanceToTimer
    \/ AdvanceToTruthyTimer

SpecTruthy == Init /\ [][NextTruthy]_vars

\* ----------------------------------------- addTimeoutToPromise: actions
\* addTimeoutToPromise(promise, timeoutMs, timeoutMessage): the timer is
\* set, then and catch are attached; the callbacks of a promise that is
\* settled already run before any timer callback
AddTimeoutToPromise(promise, timeoutMs, timeoutMessage) ==
    /\ timed.pc = "idle"
    /\ LET ms == IF timeoutMs.given THEN timeoutMs.ms ELSE DefaultTimeoutMs
       IN  timed' = deliver([idleTimed EXCEPT !.pc = "racing",
                                              !.timeoutMs = ms,
                                              !.timeoutMessage = timeoutMessage,
                                              !.due = now + ms,
                                              !.promise = promise])
    /\ lastOp' = op("addTimeoutToPromise", 0, noArg, timeoutMessage)
    /\ UNCHANGED <<retryState, now, ticks, dialog, waiter, pages>>

\* the wrapped promise settles with result: its then or catch callback runs
PromiseSettles(result) ==
    /\ timed.pc = "racing"
    /\ timed.promise.status = "pending"
    /\ timed' = deliver([timed EXCEPT !.promise = result])
    /\ lastOp' = op("promiseSettles", 0, noArg, result.value)
    /\ UNCHANGED <<retryState, now, ticks, dialog, waiter, pages>>

\* the timer callback runs, at its due time or later: reject(new Error(...)),
\* which does nothing to a promise that is settled
TimeoutFires ==
    /\ timed.pc = "racing"
    /\ ~timed.timerDone
    /\ now >= timed.due
    /\ timed' = IF timed.outcome.status = "pending"
                THEN [timed EXCEPT !.timerDone = TRUE,
                                   !.outcome = rejected(timedTimeoutError(timed)),
                                   !.first = "timeout"]
                ELSE [timed EXCEPT !.timerDone = TRUE]
    /\ lastOp' = op("timeoutFires", 0, noArg, jsUndefined)
    /\ UNCHANGED <<retryState, now, ticks, dialog, waiter, pages>>

\* one millisecond passes while the timer is set
TimedTick ==
    /\ timed.pc = "racing"
    /\ ~timed.timerDone
    /\ ticks < MaxTicks
    /\ now' = now + 1
    /\ ticks' = ticks + 1
    /\ lastOp' = op("tick", 0, noArg, jsUndefined)
    /\ UNCHANGED <<retryState, timed, dialog, waiter, pages>>

\* the clock reaches the due time of the timer
AdvanceToTimeout ==
    /\ timed.pc = "racing"
    /\ ~timed.timerDone
    /\ now < timed.due
    /\ now' = timed.due
    /\ lastOp' = op("advanceToTimeout", 0, noArg, jsUndefined)
    /\ UNCHANGED <<retryState, ticks, timed, dialog, waiter, pages>>

\* one addTimeoutToPromise call: the wrapped promise and the timer race
NextTimed ==
    \/ \E promise \in PromiseInputs, timeoutMs \in TimeoutMsInputs,
          timeoutMessage \in TimeoutMessageInputs :
         AddTimeoutToPromise(promise, timeoutMs, timeoutMessage)
    \/ \E result \in PromiseInputs \ {pending} : PromiseSettles(result)
    \/ TimeoutFires
    \/ TimedTick
    \/ AdvanceToTimeout

SpecTimed == Init /\ [][NextTimed]_vars

\* ------------------------------------------- stubDialogMatchers: actions
\* stubDialogMatchers(app, stubs, { throwOnUnmatched }), called once by a
\* test: the stubs are serialized and grouped by method in the order passed,
\* and every method that has a stub is replaced
StubDialogMatchers(stubs, throwOnUnmatched) ==
    /\ \A m \in DialogMethods : ~dialog.installed[m].stubbed
    /\ LET serializedStubs == [k \in 1..Len(stubs) |-> serializeMatcherStub(stubs[k])]
           grouped(m) == SelectSeq(serializedStubs, LAMBDA st : st.method = m)
       IN  dialog' = [dialog EXCEPT
                        !.installed = [m \in DialogMethods |->
                           IF grouped(m) # <<>>
                           THEN [stubbed |-> TRUE, stubs |-> grouped(m),
                                 throwOnUnmatched |-> throwOnUnmatched,
                                 passed |-> stubs]
                           ELSE @[m]],
                        !.method = "none", !.options = noOptions, !.result = noResult]
    /\ lastOp' = op("stubDialogMatchers", 0, noArg, jsBoolean(throwOnUnmatched))
    /\ UNCHANGED <<retryState, now, ticks, timed, waiter, pages>>

\* the application calls a stubbed dialog[method](options)
ShowMessageBox(method, options) ==
    /\ dialog.installed[method].stubbed
    /\ dialog' = [dialog EXCEPT
                    !.method = method, !.options = options,
                    !.result = stubbedMethod(dialog.installed[method].stubs,
                                             dialog.installed[method].throwOnUnmatched,
                                             method, options)]
    /\ lastOp' = op(method, 0, noArg, jsUndefined)
    /\ UNCHANGED <<retryState, now, ticks, timed, waiter, pages>>

\* the lists of at most n stubs
StubLists(n) ==
    UNION { [1..len -> StubInputs] : len \in 0..n }

\* a test stubs the dialogs and the application shows message boxes
NextDialog ==
    \/ \E stubs \in StubLists(MaxStubs), throwOnUnmatched \in BOOLEAN :
         StubDialogMatchers(stubs, throwOnUnmatched)
    \/ \E method \in DialogMethods, options \in DialogOptionInputs :
         ShowMessageBox(method, options)

SpecDialog == Init /\ [][NextDialog]_vars

\* --------------------------------------- waitForWindowByMatcher: actions
\* waitForWindowByMatcher(electronApp, matcher, options) up to its first
\* await: windows() is read; with no window open the race starts at once,
\* else the matcher is invoked for the first window
WaitForWindowByMatcher(options) ==
    /\ waiter.pc = "idle"
    /\ LET timeout == IF "timeout" \in options.keys THEN options.timeout
                      ELSE DefaultWaitTimeout
           interval == IF "interval" \in options.keys THEN options.interval
                       ELSE DefaultWaitInterval
           w == [waiter EXCEPT !.timeout = timeout, !.interval = interval,
                               !.calledAt = now, !.snapshot = Len(pages)]
       IN  waiter' = IF Len(pages) = 0
                     THEN startRace(w, now, pages)
                     ELSE [w EXCEPT !.pc = "scanning"]
    /\ lastOp' = op("waitForWindowByMatcher", 0, noArg, jsUndefined)
    /\ UNCHANGED <<retryState, now, ticks, timed, dialog, pages>>

\* the matcher answers for the next of the windows that were open at the
\* call (within the millisecond of the call): true returns the page; false
\* goes on to the next window and, after the last, to the race
ScanStep ==
    /\ waiter.pc = "scanning"
    /\ LET k == waiter.scanned + 1
       IN  waiter' = IF pages[k] THEN resolveWaiter(waiter, k)
                     ELSE IF k = waiter.snapshot
                     THEN startRace([waiter EXCEPT !.scanned = k], now, pages)
                     ELSE [waiter EXCEPT !.scanned = k]
    /\ lastOp' = op("scanStep", 0, noArg, jsUndefined)
    /\ UNCHANGED <<retryState, now, ticks, timed, dialog, pages>>

\* the application opens a window: while the listener of waitForEvent is
\* registered the 'window' event runs its predicate, the matcher; true
\* removes the listener and resolves with the page
WindowOpens(matches) ==
    /\ Len(pages) < MaxPages
    /\ pages' = Append(pages, matches)
    /\ LET w == answerDates(waiter, Len(pages) + 1, now, matches)
       IN  waiter' = IF ~w.listening THEN w
                     ELSE IF matches
                     THEN [resolveWaiter(w, Len(pages) + 1)
                             EXCEPT !.listening = FALSE,
                                    !.lateMatcher = @ \/ w.pc = "done"]
                     ELSE [w EXCEPT !.lateMatcher = @ \/ w.pc = "done"]
    /\ lastOp' = op("windowOpens", 0, noArg, jsBoolean(matches))
    /\ UNCHANGED <<retryState, now, ticks, timed, dialog>>

\* the title or URL of a window changes while the call is waiting: the
\* matcher's answer for it changes
PageChanges(k) ==
    /\ k \in 1..Len(pages)
    /\ waiter.pc \in {"scanning", "racing"}
    /\ pages' = [pages EXCEPT ![k] = ~@]
    /\ waiter' = answerDates(waiter, k, now, ~pages[k])
    /\ lastOp' = op("pageChanges", k, noArg, jsUndefined)
    /\ UNCHANGED <<retryState, now, ticks, timed, dialog>>

\* an interval callback that resolves with the first window, matching or not
PollTickAnyWindow ==
    /\ waiter.polling
    /\ now >= waiter.nextTick
    /\ waiter' = IF now - waiter.startTime > waiter.timeout
                 THEN [rejectWaiter(waiter,
                         jsError(sErrorName, sWaitingForWindow
                                   \o numberToString(waiter.timeout) \o sMs))
                         EXCEPT !.polling = FALSE]
                 ELSE IF Len(pages) > 0
                 THEN [resolveWaiter(waiter, 1)
                         EXCEPT !.polling = FALSE,
                                !.lateMatcher = @ \/ waiter.pc = "done"]
                 ELSE [waiter EXCEPT !.nextTick = @ + waiter.interval]
    /\ lastOp' = op("pollTick", 0, noArg, jsUndefined)
    /\ UNCHANGED <<retryState, now, ticks, timed, dialog, pages>>

\* an interval callback that looks only at the windows that were open at the
\* call
PollTickKnownWindows ==
    /\ waiter.polling
    /\ now >= waiter.nextTick
    /\ LET known == SubSeq(pages, 1, waiter.snapshot)
       IN  waiter' = IF now - waiter.startTime > waiter.timeout
                     THEN [rejectWaiter(waiter,
                             jsError(sErrorName, sWaitingForWindow
                                       \o numberToString(waiter.timeout) \o sMs))
                             EXCEPT !.polling = FALSE]
                     ELSE IF firstMatch(known) # 0
                     THEN [resolveWaiter(waiter, firstMatch(known))
                             EXCEPT !.polling = FALSE,
                                    !.lateMatcher = @ \/ waiter.pc = "done"]
                     ELSE [waiter EXCEPT !.nextTick = @ + waiter.interval,
                                         !.lateMatcher =
                                            @ \/ (waiter.pc = "done" /\ Len(known) > 0)]
    /\ lastOp' = op("pollTick", 0, noArg, jsUndefined)
    /\ UNCHANGED <<retryState, now, ticks, timed, dialog, pages>>

\* the callback of the poller's setInterval runs at its due time, whether or
\* not the returned promise has settled: past the timeout it clears the
\* interval and rejects, else it invokes the matcher for the windows open
\* now and, at the first it returns true for, clears the interval and
\* resolves with that window; else the next callback is due an interval later
PollTick ==
    /\ waiter.polling
    /\ now >= waiter.nextTick
    /\ waiter' = IF now - waiter.startTime > waiter.timeout
                 THEN [rejectWaiter(waiter,
                         jsError(sErrorName, sWaitingForWindow
                                   \o numberToString(waiter.timeout) \o sMs))
                         EXCEPT !.polling = FALSE]
                 ELSE IF firstMatch(pages) # 0
                 THEN [resolveWaiter(waiter, firstMatch(pages))
                         EXCEPT !.polling = FALSE,
                                !.lateMatcher = @ \/ waiter.pc = "done"]
                 ELSE [waiter EXCEPT !.nextTick = @ + waiter.interval,
                                     !.lateMatcher =
                                        @ \/ (waiter.pc = "done" /\ Len(pages) > 0)]
    /\ lastOp' = op("pollTick", 0, noArg, jsUndefined)
    /\ UNCHANGED <<retryState, now, ticks, timed, dialog, pages>>

\* the timeout of electronApp.waitForEvent('window', { timeout, predicate })
\* expires (a timeout of 0 turns it off): the listener is removed and
\* waitForEvent rejects with a TimeoutError
EventTimeout ==
    /\ waiter.listening
    /\ waiter.timeout # 0
    /\ now >= waiter.eventDue
    /\ waiter' = [rejectWaiter(waiter,
                    jsError(sTimeoutErrorName, sTimeoutSpace
                              \o numberToString(waiter.timeout) \o sExceededWindow))
                    EXCEPT !.listening = FALSE]
    /\ lastOp' = op("eventTimeout", 0, noArg, jsUndefined)
    /\ UNCHANGED <<retryState, now, ticks, timed, dialog, pages>>

\* the due times of the timers of the invocation that are set
waiterDueTimes ==
    (IF waiter.polling THEN {waiter.nextTick} ELSE {})
      \cup (IF waiter.listening /\ waiter.timeout # 0 THEN {waiter.eventDue} ELSE {})

\* the clock reaches the due time of the earliest timer (the callbacks of the
\* timers run in the order of their due times: no timer is due yet)
AdvanceToWaiterTimer ==
    /\ waiterDueTimes # {}
    /\ \A t \in waiterDueTimes : t > now
    /\ now' = minOf(waiterDueTimes)
    /\ lastOp' = op("advanceToTimer", 0, noArg, jsUndefined)
    /\ UNCHANGED <<retryState, ticks, timed, dialog, waiter, pages>>

\* the options of the waitForWindowByMatcher calls
WaitInputs ==
    { [keys |-> {}, timeout |-> 0, interval |-> 0],
      [keys |-> {"timeout"}, timeout |-> 500, interval |-> 0],
      [keys |-> {"timeout"}, timeout |-> 0, interval |-> 0],
      [keys |-> {"timeout", "interval"}, timeout |-> 300, interval |-> 100] }

\* one waitForWindowByMatcher call while windows open and change
NextWaiter ==
    \/ \E options \in WaitInputs : WaitForWindowByMatcher(options)
    \/ ScanStep
    \/ \E matches \in BOOLEAN : WindowOpens(matches)
    \/ \E k \in 1..MaxPages : PageChanges(k)
    \/ PollTick
    \/ EventTimeout
    \/ AdvanceToWaiterTimer

SpecWaiter == Init /\ [][NextWaiter]_vars

\* the matcher answers, the timers of the invocation fire and the clock
\* moves on
FairSpecWaiter ==
    /\ SpecWaiter
    /\ WF_vars(ScanStep)
    /\ WF_vars(PollTick)
    /\ WF_vars(EventTimeout)
    /\ WF_vars(AdvanceToWaiterTimer)

\* ---------------------------------------------------------------- claims
\* "the stringified error str matches errorMatch", as the documentation of
\* RetryOptions.errorMatch states it: a string or a list of strings matches
\* when str contains (one of) the string(s), whatever the case; a RegExp
\* matches when its test of str succeeds
Matches(str, errorMatch, arrs, li) ==
    CASE errorMatch.kind = "string" ->
           includes(toLowerCase(str), toLowerCase(errorMatch.s))
      [] errorMatch.kind = "regexp" -> regExpTest(errorMatch.ref, str, li).found
      [] OTHER ->
           \E k \in 1..Len(arrs[errorMatch.ref]) :
              includes(toLowerCase(str), toLowerCase(arrs[errorMatch.ref][k]))

\* C1: when an attempt of a retry call throws a value whose stringified form
\* does not match the call's errorMatch, the call settles in that very step,
\* rejected with the thrown value itself, without another invocation of fn;
\* and a settled call never changes again (fn is not invoked any more).
C1_NonMatchingErrorRejectsAtOnce ==
    [][\A i \in CallIds :
         /\ (lastOp'.name = "fnThrow" /\ lastOp'.id = i) =>
              LET es == errToString(lastOp'.val)
              IN  (es.tag = "string"
                     /\ ~Matches(es.s, call[i].errorMatch, arrays, lastIndex)) =>
                    /\ call'[i].pc = "done"
                    /\ call'[i].outcome = rejected(lastOp'.val)
                    /\ call'[i].fnCalls = call[i].fnCalls
                    /\ call'[i].fnCalls = call'[i].tries
         /\ call[i].pc = "done" => call'[i] = call[i]
      ]_vars

\* C1 witness: the second attempt, made after a matching failure, threw
\* Error('Unexpected error'), which matches nothing, and the call is rejected with it
C1_Witness ==
    /\ call[1].pc = "done"
    /\ lastOp.name = "fnThrow"
    /\ call[1].tries = 2
    /\ call[1].outcome = rejected(jsError(sErrorName, sUnexpected))

\* C2: a retry call that has been made has invoked fn at least once, whatever
\* its timeout, poll and disable are; in particular a settled call has.
C2_FirstAttemptAlwaysMade ==
    \A i \in CallIds : call[i].pc # "idle" => call[i].fnCalls >= 1

\* C2 witness: a settled call with timeout 0 and disable: true made one attempt
C2_Witness ==
    /\ call[1].pc = "done"
    /\ call[1].timeout <= 0
    /\ optionsDisable(call[1])
    /\ call[1].fnCalls = 1

\* C3: in a call that is not disabled, has a numeric poll, and in which
\* neither fn nor a timer took longer than its nominal time: the k-th attempt
\* starts (k-1)*poll after the call; after k matching failures the next
\* attempt is made whenever k*poll < timeout, so the timeout rejection occurs
\* only when k*poll >= timeout; and when an attempt returns, the call is
\* resolved with the returned value, after as many invocations as attempts.
C3_SuccessOnNthAttempt ==
    \A i \in CallIds :
        LET c == call[i]
        IN  (c.exact /\ ~c.poll.raf /\ ~optionsDisable(c)) =>
              /\ c.pc = "inFn" => c.fnStart - c.startTime = (c.tries - 1) * c.poll.ms
              /\ (c.pc = "waiting" /\ now = c.wakeAt /\ c.tries * c.poll.ms < c.timeout)
                   => shouldContinue(c, now)
              /\ (c.pc = "done" /\ c.outcome = rejected(timeoutError(c)))
                   => c.tries * c.poll.ms >= c.timeout
              /\ (c.pc = "done" /\ lastOp.name = "fnReturn" /\ lastOp.id = i)
                   => c.outcome = resolved(lastOp.val) /\ c.fnCalls = c.tries

\* C3 witness: two matching failures, then the third attempt returned 'success'
C3_Witness ==
    /\ call[1].pc = "done"
    /\ call[1].exact /\ ~call[1].poll.raf /\ ~optionsDisable(call[1])
    /\ call[1].tries = 3
    /\ 2 * call[1].poll.ms < call[1].timeout
    /\ call[1].poll.ms > 0
    /\ call[1].outcome = resolved(jsString(sSuccess))

\* the call was rejected with the error retry builds after its loop
isTimeoutRejection(c) ==
    /\ c.pc = "done"
    /\ c.outcome.status = "rejected"
    /\ c.outcome.value.kind = "Error"
    /\ Len(c.outcome.value.s) >= Len(sTimeoutPrefix)
    /\ SubSeq(c.outcome.value.s, 1, Len(sTimeoutPrefix)) = sTimeoutPrefix

\* C4: the timeout rejection of a call that is not disabled comes after at
\* least one attempt, and its message contains the effective timeout and the
\* stringified form of the last value fn threw.
C4_TimeoutMessageNamesLastError ==
    \A i \in CallIds :
        LET c == call[i]
            es == errToString(c.lastErr)
        IN  (isTimeoutRejection(c) /\ ~optionsDisable(c)) =>
              /\ c.fnCalls >= 1
              /\ includes(c.outcome.value.s, numberToString(c.timeout))
              /\ es.tag = "string"
              /\ includes(c.outcome.value.s, es.s)

C6_GlobalDisableInherited ==
    \A i \in CallIds :
        LET c == call[i]
        IN  (c.pc # "idle" /\ "disable" \notin c.options.keys
               /\ objs["currentRetryOptions"].disable) =>
              /\ c.fnCalls <= 1
              /\ c.pc # "waiting"
              /\ ~isTimeoutRejection(c)

\* C7: the timeout, poll and errorMatch a call works with are those of its
\* options where the options have the field, and those of the global
\* configuration (which does not change once the call is made) elsewhere.
C7_EffectiveOptions ==
    \A i \in CallIds :
        LET c == call[i]
            g == objs["currentRetryOptions"]
        IN  c.pc # "idle" =>
              /\ c.timeout = IF "timeout" \in c.options.keys
                             THEN c.options.timeout ELSE g.timeout
              /\ c.poll = IF "poll" \in c.options.keys THEN c.options.poll ELSE g.poll
              /\ c.errorMatch = IF "errorMatch" \in c.options.keys
                                THEN c.options.errorMatch ELSE g.errorMatch

\* C7 witness: after setRetryOptions changed poll and errorMatch, a call
\* whose options give the timeout only works with that timeout and with the
\* poll and errorMatch that were installed
C7_Witness ==
    /\ call[1].pc # "idle"
    /\ call[1].options.keys = {"timeout"}
    /\ call[1].timeout = 2
    /\ objs["currentRetryOptions"].timeout = 5000
    /\ call[1].poll = pollMs(1)
    /\ call[1].errorMatch = matchString(sFail)

\* C8: setRetryOptions(partial) gives the fields partial has their new
\* values and leaves the other fields of the global configuration as they
\* were; what it returns has the fields of the updated configuration; and
\* getRetryOptions() returns the field values of the global configuration
\* and changes nothing in it.
C8_SetChangesExactlyGivenFields ==
    [][/\ lastOp'.name = "setRetryOptions" =>
            LET p == lastOp'.arg
                before == objs["currentRetryOptions"]
                after == objs'["currentRetryOptions"]
            IN  /\ after.timeout = IF "timeout" \in p.keys THEN p.timeout
                                   ELSE before.timeout
                /\ after.poll = IF "poll" \in p.keys THEN p.poll ELSE before.poll
                /\ after.errorMatch = IF "errorMatch" \in p.keys THEN p.errorMatch
                                      ELSE before.errorMatch
                /\ after.disable = IF "disable" \in p.keys THEN p.disable
                                   ELSE before.disable
                /\ objs'[handle'] = after
       /\ lastOp'.name = "getRetryOptions" =>
            /\ objs'[handle'] = objs["currentRetryOptions"]
            /\ objs'["currentRetryOptions"] = objs["currentRetryOptions"]
      ]_vars

\* C8 witness: setRetryOptions({timeout: 2}) after poll had been set to 1:
\* timeout is 2 and poll is still 1
C8_Witness ==
    /\ lastOp.name = "setRetryOptions"
    /\ lastOp.arg.keys = {"timeout"}
    /\ objs["currentRetryOptions"].timeout = 2
    /\ objs["currentRetryOptions"].poll = pollMs(1)
    /\ objs["currentRetryOptions"].disable

\* the options are the hard-coded defaults
isDefaults(o, arrs) ==
    /\ o.timeout = 5000
    /\ o.poll = pollMs(200)
    /\ o.disable = FALSE
    /\ o.errorMatch.kind = "array"
    /\ arrs[o.errorMatch.ref] = defaultErrorMatch

C10_GetReturnsCopy ==
    [][/\ (lastOp'.name = "assignField" /\ heldFrom = "getRetryOptions") =>
            objs'["currentRetryOptions"] = objs["currentRetryOptions"]
       /\ lastOp'.name = "getRetryOptions" =>
            objs'[handle'] = objs["currentRetryOptions"]
       /\ lastOp'.name = "retry" =>
            LET c == call'[lastOp'.id]
                g == objs["currentRetryOptions"]
            IN  /\ c.timeout = IF "timeout" \in c.options.keys
                               THEN c.options.timeout ELSE g.timeout
                /\ c.poll = IF "poll" \in c.options.keys THEN c.options.poll ELSE g.poll
                /\ c.errorMatch = IF "errorMatch" \in c.options.keys
                                  THEN c.options.errorMatch ELSE g.errorMatch
      ]_vars

\* C10 witness: the caller has just changed a field of the object
\* getRetryOptions() gave it, and that object now differs from the global
\* configuration
C10_Witness ==
    /\ lastOp.name = "assignField"
    /\ heldFrom = "getRetryOptions"
    /\ objs[handle] # objs["currentRetryOptions"]

\* C11: what setRetryOptions returned is a snapshot: assigning to a field of
\* it afterwards changes nothing in the global configuration, which is what
\* getRetryOptions() then reports and what later retry calls resolve their
\* options from.
C11_SetReturnsSnapshot ==
    [][/\ (lastOp'.name = "assignField" /\ heldFrom = "setRetryOptions") =>
            objs'["currentRetryOptions"] = objs["currentRetryOptions"]
       /\ lastOp'.name = "getRetryOptions" =>
            objs'[handle'] = objs["currentRetryOptions"]
      ]_vars

\* C12: after the caller has appended to the errorMatch list of the object
\* getRetryOptions() returned, a retry call that works with the default list
\* still treats a thrown value as retryable exactly when its text contains
\* one of the original default strings, and resetRetryOptions() followed by
\* getRetryOptions() still yields the original default list.
C12_GetProtectsSharedList ==
    [][/\ \A i \in CallIds :
            (lastOp'.name = "fnThrow" /\ lastOp'.id = i
               /\ call[i].errorMatch = matchArray("defaultList")) =>
              LET es == errToString(lastOp'.val)
              IN  es.tag = "string" =>
                    ((call'[i].outcome = rejected(lastOp'.val))
                       <=> ~(\E k \in 1..Len(defaultErrorMatch) :
                               includes(toLowerCase(es.s), toLowerCase(defaultErrorMatch[k]))))
       /\ (lastOp.name = "resetRetryOptions" /\ lastOp'.name = "getRetryOptions") =>
            isDefaults(objs'[handle'], arrays')
      ]_vars

\* two strings that differ in the case of their letters at most
equalIgnoringCase(a, b) ==
    /\ Len(a) = Len(b)
    /\ \A k \in 1..Len(a) : toLowerChar(a[k]) = toLowerChar(b[k])

\* s contains sub, the case of the letters of either not counting
containsIgnoringCase(s, sub) ==
    \E k \in 0..(Len(s) - Len(sub)) :
       equalIgnoringCase(SubSeq(s, k + 1, k + Len(sub)), sub)

\* C13: with an errorMatch that is a string or a list of strings, an attempt
\* that throws is retried (the call goes on to wait for its next attempt, or
\* ends the way a matching failure ends it: resolved when disabled, the
\* timeout error otherwise) exactly when the thrown value has a text that
\* contains the string, respectively one of the strings of the list, the
\* case of the letters of either side not counting; otherwise the call is
\* rejected in that step.
C13_StringMatchIgnoresCase ==
    [][\A i \in CallIds :
         (lastOp'.name = "fnThrow" /\ lastOp'.id = i
            /\ call[i].errorMatch.kind \in {"string", "array"}) =>
           LET es == errToString(lastOp'.val)
               m == call[i].errorMatch
               wanted == IF m.kind = "string" THEN {m.s}
                         ELSE {arrays[m.ref][k] : k \in 1..Len(arrays[m.ref])}
               retried == \/ call'[i].pc = "waiting"
                          \/ call'[i].outcome.status = "resolved"
                          \/ isTimeoutRejection(call'[i])
               refused == /\ call'[i].pc = "done"
                          /\ call'[i].outcome.status = "rejected"
                          /\ ~isTimeoutRejection(call'[i])
           IN  /\ retried <=> (es.tag = "string"
                                 /\ \E w \in wanted : containsIgnoringCase(es.s, w))
               /\ retried \/ refused
               /\ (refused /\ es.tag = "string") => call'[i].outcome = rejected(lastOp'.val)
      ]_vars

\* C13 witness: the string 'FAIL' was thrown under errorMatch 'fail' and the
\* call waits for its next attempt
C13_Witness ==
    /\ lastOp.name = "fnThrow"
    /\ lastOp.val = jsString(sFailUpper)
    /\ call[1].errorMatch = matchString(sFail)
    /\ call[1].pc = "waiting"

\* C14: with an errorMatch that is a RegExp, an attempt that throws a value
\* with the text str is retried exactly when the expression matches str as it
\* is (for a literal pattern: str contains the pattern, letter case counting
\* unless the expression has the ignore-case flag), whatever the other flags
\* of the expression are.
C14_RegExpMatchesAsIs ==
    [][\A i \in CallIds :
         (lastOp'.name = "fnThrow" /\ lastOp'.id = i
            /\ call[i].errorMatch.kind = "regexp") =>
           LET es == errToString(lastOp'.val)
               re == RegExps[call[i].errorMatch.ref]
               retried == call'[i].outcome # rejected(lastOp'.val)
           IN  es.tag = "string" =>
                 (retried <=> IF re.ignoreCase THEN containsIgnoringCase(es.s, re.source)
                              ELSE includes(es.s, re.source))
      ]_vars

\* C15: classifying a thrown value changes no state (no RegExp's lastIndex
\* moves), and within a call a thrown value with the same text as the one the
\* previous attempt threw, which was retried, is retried again: the call is
\* not rejected with it.
C15_ClassificationDeterministic ==
    [][\A i \in CallIds :
         (lastOp'.name = "fnThrow" /\ lastOp'.id = i) =>
           /\ lastIndex' = lastIndex
           /\ (call[i].tries >= 2
                 /\ errToString(lastOp'.val) = errToString(call[i].lastErr)) =>
                call'[i].outcome # rejected(lastOp'.val)
      ]_vars

\* C16: for every value fn throws, errToString yields a string (it neither
\* yields undefined nor throws), and the call an attempt of which threw is
\* rejected, if at all, with the thrown value itself or with retry's timeout
\* error, never with an error raised by the classification.
C16_ErrToStringTotal ==
    [][\A i \in CallIds :
         (lastOp'.name = "fnThrow" /\ lastOp'.id = i) =>
           /\ errToString(lastOp'.val).tag = "string"
           /\ call'[i].outcome.status = "rejected" =>
                call'[i].outcome.value \in {lastOp'.val, timeoutError(call'[i])}
      ]_vars

\* the invocations of fn made so far on behalf of the retryUntilTruthy call
truthyFnCalls ==
    outer.fnCalls + (IF outer.pc = "inRetry" THEN call[1].fnCalls ELSE 0)

\* C17: when an invocation of fn made for retryUntilTruthy yields a truthy
\* value, the inner retry resolves with it and retryUntilTruthy then resolves
\* with exactly that value without another invocation of fn; if no
\* invocation threw, the invocations made are as many as the inner retry
\* calls (the truthy one is the k-th of k); and once retryUntilTruthy has
\* settled fn is never invoked again.
C17_StopsAtFirstTruthy ==
    [][/\ (lastOp'.name = "fnReturn" /\ outer.pc = "inRetry" /\ truthy(lastOp'.val)) =>
            /\ call'[1].outcome = resolved(lastOp'.val)
            /\ truthyFnCalls' = truthyFnCalls
       /\ (lastOp'.name = "truthyResume" /\ call[1].outcome.status = "resolved"
             /\ truthy(call[1].outcome.value)) =>
            /\ outer'.pc = "done"
            /\ outer'.outcome = resolved(call[1].outcome.value)
            /\ truthyFnCalls' = truthyFnCalls
            /\ ~outer'.fnThrew => outer'.fnCalls = outer'.rounds
       /\ outer.pc = "done" => (outer' = outer /\ call'[1] = call[1])
      ]_vars

\* C17 witness: fn returned a falsy value twice and then 'success':
\* retryUntilTruthy is resolved with 'success' after three invocations
C17_Witness ==
    /\ outer.pc = "done"
    /\ outer.outcome = resolved(jsString(sSuccess))
    /\ ~outer.fnThrew
    /\ outer.fnCalls = 3
    /\ outer.rounds = 3

\* the error names the outer timeout: 'Timeout after <timeout>ms'
namesOuterTimeout(e, o) ==
    /\ e.kind = "Error"
    /\ includes(e.s, sTimeoutAfter \o numberToString(o.timeout) \o sMs)

\* C18: retryUntilTruthy never resolves with a falsy value: a falsy result
\* of an inner retry makes it wait; a wait that ends at or after the outer
\* deadline ends the call, rejected with an error that names the outer
\* timeout; and when no invocation of fn threw (fn yielded falsy values
\* only), a rejection is that error and comes at or after the deadline.
C18_OnlyFalsyTimesOut ==
    [][/\ outer'.outcome.status = "resolved" => truthy(outer'.outcome.value)
       /\ (lastOp'.name = "truthyResume" /\ call[1].outcome.status = "resolved"
             /\ ~truthy(call[1].outcome.value)) =>
            outer'.pc = "waiting"
       /\ (lastOp'.name = "truthyTimerFire" /\ now >= outer.timeoutTime) =>
            /\ outer'.pc = "done"
            /\ outer'.outcome.status = "rejected"
            /\ namesOuterTimeout(outer'.outcome.value, outer)
       /\ (outer'.pc = "done" /\ outer'.outcome.status = "rejected" /\ ~outer'.fnThrew) =>
            /\ namesOuterTimeout(outer'.outcome.value, outer')
            /\ outer'.settledAt >= outer'.timeoutTime
      ]_vars

\* C18 witness: with timeout 100 and the default poll, fn returned a falsy
\* value once and the call is rejected with 'Timeout after 100ms'
C18_Witness ==
    /\ outer.pc = "done"
    /\ outer.timeout = 100
    /\ outer.fnCalls = 1
    /\ ~outer.fnThrew
    /\ outer.outcome.status = "rejected"
    /\ includes(outer.outcome.value.s, sTimeoutAfter \o numberToString(100) \o sMs)

\* C19: when an invocation of fn made for retryUntilTruthy throws a value
\* whose text does not match the pattern it is judged against
\* (retryErrorMatch if the options have it, else the global errorMatch), the
\* inner retry is rejected with the thrown value in that step, and
\* retryUntilTruthy's next step, taken with no time passed and no timer
\* set, rejects it with the same value; fn is not invoked in either step.
C19_NonMatchingErrorPropagates ==
    [][/\ (lastOp'.name = "fnThrow" /\ outer.pc = "inRetry") =>
            LET es == errToString(lastOp'.val)
                judged == IF "retryErrorMatch" \in outer.options.keys
                          THEN outer.options.retryErrorMatch
                          ELSE objs["currentRetryOptions"].errorMatch
            IN  (es.tag = "string" /\ ~Matches(es.s, judged, arrays, lastIndex)) =>
                  /\ call'[1].pc = "done"
                  /\ call'[1].outcome = rejected(lastOp'.val)
                  /\ truthyFnCalls' = truthyFnCalls
       /\ (lastOp'.name = "truthyResume" /\ call[1].outcome.status = "rejected") =>
            /\ lastOp.name \in {"fnThrow", "timerFire"}
            /\ outer'.pc = "done"
            /\ outer'.outcome = call[1].outcome
            /\ outer'.settledAt = now
            /\ now' = now
            /\ truthyFnCalls' = truthyFnCalls
       /\ (outer.pc = "inRetry" /\ call[1].pc = "done") => lastOp'.name = "truthyResume"
      ]_vars

\* C19 witness: under the global errorMatch 'fail' and no retryErrorMatch,
\* the second invocation threw Error('Unexpected error') and
\* retryUntilTruthy is rejected with it
C19_Witness ==
    /\ outer.pc = "done"
    /\ "retryErrorMatch" \notin outer.options.keys
    /\ objs["currentRetryOptions"].errorMatch = matchString(sFail)
    /\ outer.fnCalls = 2
    /\ outer.outcome = rejected(jsError(sErrorName, sUnexpected))

\* C20: when every invocation of fn completed at once, yielding a falsy value
\* or throwing a matching error, and every timer fired at its due time, a
\* retryUntilTruthy call (which then ends with its own or the inner retry's
\* timeout error) has settled no later than its outer timeout plus one outer
\* poll interval after it was started.
C20_OuterTimeoutBoundsWait ==
    (/\ outer.pc = "done"
     /\ outer.exact
     /\ outer.outcome.status = "rejected"
     /\ \/ outer.outcome.value = truthyTimeoutError(outer)
        \/ isTimeoutRejection(call[1]) /\ outer.outcome = call[1].outcome) =>
       \E frame \in FrameDelays :
          outer.settledAt - outer.startTime <= outer.timeout + truthyPollDelay(outer, frame)

\* the multiples of poll, from 0 on, that are strictly below timeout: as many
\* as timeout / poll rounded up, and none when timeout is not positive
multiplesBelow(timeout, poll) ==
    IF timeout <= 0 THEN 0 ELSE ((timeout - 1) \div poll) + 1

\* C23: a call that is not disabled, has a numeric positive poll, in which
\* fn and the timers took their nominal time, and that ended with the
\* timeout error (every attempt threw a matching error) has invoked fn once
\* for every multiple of poll strictly below timeout, and at least once;
\* with timeout 1000 and poll 200 that is 5 invocations.
C23_InvocationCount ==
    \A i \in CallIds :
        LET c == call[i]
            n == multiplesBelow(c.timeout, c.poll.ms)
        IN  (isTimeoutRejection(c) /\ c.exact /\ ~c.poll.raf /\ c.poll.ms > 0
               /\ ~optionsDisable(c)) =>
              /\ c.fnCalls = IF n < 1 THEN 1 ELSE n
              /\ (c.timeout = 1000 /\ c.poll.ms = 200) => c.fnCalls = 5

\* C23 witness: with timeout 1000 and the default poll of 200 the call is
\* rejected with the timeout error after 5 invocations
C23_Witness ==
    /\ isTimeoutRejection(call[1])
    /\ call[1].exact
    /\ call[1].timeout = 1000
    /\ call[1].poll = pollMs(200)
    /\ call[1].errorMatch = matchString(sFail)
    /\ call[1].fnCalls = 5

\* C28: an attempt other than the first is never started when the time
\* elapsed since the call began is at least the effective timeout: a
\* matching failure at such a moment ends the call instead of starting the
\* wait, and so does the end of a wait at such a moment.
C28_NoAttemptAfterTimeout ==
    [][\A i \in CallIds :
         LET c == call[i]
             d == call'[i]
         IN  /\ (d.pc = "inFn" /\ d.tries >= 2) => d.fnStart - d.startTime < d.timeout
             /\ (lastOp'.name = "fnThrow" /\ lastOp'.id = i
                   /\ now - c.startTime >= c.timeout) => d.pc = "done"
             /\ (lastOp'.name = "timerFire" /\ lastOp'.id = i
                   /\ now - c.startTime >= c.timeout) =>
                  (d.pc = "done" /\ d.fnCalls = c.fnCalls)
      ]_vars

\* C28 witness: a wait ended when the timeout had elapsed, and the call was
\* ended with the timeout error after its two attempts
C28_Witness ==
    /\ lastOp.name = "timerFire"
    /\ isTimeoutRejection(call[1])
    /\ call[1].tries = 2
    /\ now - call[1].startTime >= call[1].timeout

\* the longest wait between two attempts of a call: its poll interval, and
\* for 'raf' a frame or the fallback delay
pollInterval(c) ==
    IF c.poll.raf
    THEN IF c.window THEN 16 ELSE RafFallbackMs
    ELSE c.poll.ms

\* C29: the timeout error of a call never comes before timeout milliseconds
\* have passed since the call began; and when fn and the timers took their
\* nominal time, it comes no later than timeout plus one poll interval
\* after the call began.
C29_TimeoutRejectionWindow ==
    [][\A i \in CallIds :
         LET c == call[i]
             d == call'[i]
         IN  (c.pc # "done" /\ isTimeoutRejection(d)) =>
               /\ now' - d.startTime >= d.timeout
               /\ d.exact => now' - d.startTime <= d.timeout + pollInterval(d)
      ]_vars

\* C29 witness: with timeout 2 and poll 20 the call is rejected with the
\* timeout error 20 ms after it began, after a single attempt
C29_Witness ==
    /\ isTimeoutRejection(call[1])
    /\ call[1].exact
    /\ call[1].timeout = 2
    /\ call[1].poll = pollMs(20)
    /\ call[1].tries = 1
    /\ now - call[1].startTime = 20

\* C30: a call in flight keeps the timeout, poll interval and errorMatch it
\* resolved when it was called; a setRetryOptions or resetRetryOptions run
\* while it is awaiting fn or waiting between attempts changes nothing of any
\* call, of any errorMatch list or of any RegExp; and a call that starts
\* takes each of the three from its own options or else from the options
\* that are current at that moment.
C30_CallKeepsResolvedOptions ==
    [][\A i \in CallIds :
         LET c == call[i]
             d == call'[i]
             cur == objs["currentRetryOptions"]
         IN  /\ c.pc \in {"inFn", "waiting"} =>
                  /\ d.timeout = c.timeout
                  /\ d.poll = c.poll
                  /\ d.errorMatch = c.errorMatch
             /\ lastOp'.name \in {"setRetryOptions", "resetRetryOptions"} =>
                  /\ call' = call
                  /\ arrays' = arrays
                  /\ lastIndex' = lastIndex
             /\ (lastOp'.name = "retry" /\ lastOp'.id = i) =>
                  /\ d.timeout = IF "timeout" \in d.options.keys
                                 THEN d.options.timeout ELSE cur.timeout
                  /\ d.poll = IF "poll" \in d.options.keys
                              THEN d.options.poll ELSE cur.poll
                  /\ d.errorMatch = IF "errorMatch" \in d.options.keys
                                    THEN d.options.errorMatch ELSE cur.errorMatch
      ]_vars

\* C30 witness: a call that inherited its timeout goes on to a further
\* attempt after the current options were changed under it, and a call
\* started after the change has the new values
C30_Witness ==
    /\ lastOp.name = "timerFire"
    /\ lastOp.id = 1
    /\ call[1].pc = "inFn"
    /\ call[1].tries >= 2
    /\ call[1].options.keys = {}
    /\ call[1].timeout = 2
    /\ objs["currentRetryOptions"].timeout = 50
    /\ call[2].pc # "idle"
    /\ call[2].options.keys = {}
    /\ call[2].timeout = 50

\* C21: a step of one retry call leaves every other call that has been
\* started as it was, and leaves unchanged what any value fn may throw in
\* that other call would be taken for (retried, rethrown or a TypeError).
C21_CallsDoNotInterfere ==
    [][\A i \in CallIds : \A j \in CallIds \ {i} :
         (lastOp'.id = j /\ call[i].pc \in {"inFn", "waiting"}) =>
           /\ call'[i] = call[i]
           /\ \A err \in LiveThrown :
                classify(errToString(err), call[i].errorMatch, arrays', lastIndex').verdict
                  = classify(errToString(err), call[i].errorMatch, arrays, lastIndex).verdict
      ]_vars

\* C22: a retry call settles in one of four ways: resolved with the value an
\* attempt returned, without a further attempt; resolved with undefined, on
\* a failure of a disabled call; rejected with the very value fn threw; or
\* rejected with the synthesized timeout error.
C22_SettlesInOneOfFourWays ==
    [][\A i \in CallIds :
         LET c == call[i]
             d == call'[i]
         IN  (c.pc # "done" /\ d.pc = "done") =>
               \/ /\ lastOp'.name = "fnReturn"
                  /\ d.outcome = resolved(lastOp'.val)
                  /\ d.fnCalls = c.fnCalls
               \/ /\ lastOp'.name = "fnThrow"
                  /\ optionsDisable(d)
                  /\ d.outcome = resolved(jsUndefined)
               \/ /\ lastOp'.name = "fnThrow"
                  /\ d.outcome = rejected(lastOp'.val)
               \/ isTimeoutRejection(d)
      ]_vars

\* C24: the promise addTimeoutToPromise returns settles once and keeps its
\* outcome; when the wrapped promise is settled before timeoutMs has elapsed
\* the outcome is that promise's value or rejection reason; when the timer
\* callback comes first the outcome is a rejection with an Error whose
\* message is timeoutMessage if one was given and 'timeout after
\* <timeoutMs>ms' if none was.
C24_FirstEventDecides ==
    [][/\ timed.outcome.status # "pending" => timed'.outcome = timed.outcome
       /\ (timed.promise.status = "pending" /\ timed'.promise.status # "pending"
             /\ now' < timed'.due) => timed'.outcome = timed'.promise
       /\ (lastOp'.name = "addTimeoutToPromise" /\ timed'.promise.status # "pending") =>
            timed'.outcome = timed'.promise
       /\ (lastOp'.name = "timeoutFires" /\ timed.outcome.status = "pending") =>
            timed'.outcome =
              rejected(jsError(sErrorName,
                         IF timed.timeoutMessage.kind = "string"
                         THEN timed.timeoutMessage.s
                         ELSE sTimeoutAfterLower \o numberToString(timed.timeoutMs) \o sMs))
      ]_vars

\* the stubs of the method called last, in the order they were passed
stubsOfCall ==
    SelectSeq(dialog.installed[dialog.method].passed,
              LAMBDA st : st.method = dialog.method)

\* the places in stubsOfCall of the stubs whose matcher accepts the options
\* of the call made last
acceptingStubs ==
    {k \in 1..Len(stubsOfCall) :
        matchesMessageBox(dialog.options, stubsOfCall[k].matcher)}

\* C25: a call of a stubbed dialog method returns the value of the first
\* stub of that method, in the order the stubs were passed, whose matcher
\* accepts the options of the call (the fields the stub's value leaves out
\* are those of the method's default), and a matcher with no pattern
\* accepts every call; when no stub accepts, the call returns the default
\* value of the method if throwOnUnmatched is false and throws a 'No
\* matching stub' error if it is true.
C25_FirstAcceptingStubWins ==
    dialog.method # "none" =>
      LET inst == dialog.installed[dialog.method]
          first == stubsOfCall[minOf(acceptingStubs)]
          v == dialog.result.value
      IN  /\ \A k \in 1..Len(stubsOfCall) :
                stubsOfCall[k].matcher = [message |-> noPattern, buttons |-> noPattern]
                  => k \in acceptingStubs
          /\ acceptingStubs # {} =>
               /\ dialog.result.status = "returned"
               /\ v = serializeMatcherStub(first).value
               /\ "response" \in first.value.keys => v.response = first.value.response
               /\ ("checkboxChecked" \in first.value.keys /\ ~v.number) =>
                    v.checkboxChecked = first.value.checkboxChecked
          /\ (acceptingStubs = {} /\ ~inst.throwOnUnmatched) =>
               dialog.result = returned(dialogMatcherDefaults(dialog.method))
          /\ (acceptingStubs = {} /\ inst.throwOnUnmatched) =>
               /\ dialog.result.status = "thrown"
               /\ dialog.result.error.kind = "Error"
               /\ SubSeq(dialog.result.error.s, 1, 16)
                    = <<"N", "o", " ", "m", "a", "t", "c", "h", "i", "n", "g", " ",
                        "s", "t", "u", "b">>

\* C25 witness: two stubs with different values accept a showMessageBox
\* call, and the call returns the value of the one passed first
C25_Witness ==
    /\ dialog.method = "showMessageBox"
    /\ acceptingStubs = {1, 2}
    /\ stubsOfCall[1].value.response # stubsOfCall[2].value.response
    /\ dialog.result.status = "returned"
    /\ dialog.result.value.response = stubsOfCall[1].value.response

\* C26: a stub whose matcher has a buttons pattern accepts a call only when
\* the options of the call have a buttons array with an entry that matches
\* the pattern (equal to it for a string, found by it for a RegExp).
C26_ButtonsPatternNeedsMatchingButton ==
    dialog.method # "none" =>
      \A k \in acceptingStubs :
         stubsOfCall[k].matcher.buttons.kind # "undefined" =>
           /\ dialog.options.def
           /\ dialog.options.hasButtons
           /\ \E b \in 1..Len(dialog.options.buttons) :
                 LET btn == dialog.options.buttons[b]
                     pattern == stubsOfCall[k].matcher.buttons
                 IN  IF pattern.kind = "string" THEN btn = pattern.s
                     ELSE IF pattern.ignoreCase
                     THEN containsIgnoringCase(btn, pattern.s)
                     ELSE includes(btn, pattern.s)

\* the rejection is one of the two timeout errors: the poller's or the one
\* of waitForEvent
isWaitTimeout(e) ==
    /\ e.kind = "Error"
    /\ Len(e.s) >= 7
    /\ SubSeq(e.s, 1, 7) = <<"T", "i", "m", "e", "o", "u", "t">>

C31_TimeoutNeverInterruptsAttempt ==
    [][\A i \in CallIds :
         LET c == call[i]
             d == call'[i]
         IN  /\ (c.pc = "inFn"
                   /\ ~(lastOp'.name \in {"fnReturn", "fnThrow"} /\ lastOp'.id = i)) =>
                  d = c
             /\ (c.pc # "done" /\ isTimeoutRejection(d)) =>
                  /\ lastOp'.name \in {"fnThrow", "timerFire"}
                  /\ lastOp'.id = i
      ]_vars

\* C31 witness: fn is still pending after the timeout of its call has
\* elapsed, and the call has not settled
C31_Witness ==
    /\ call[1].pc = "inFn"
    /\ call[1].timeout >= 0
    /\ now - call[1].startTime > call[1].timeout
    /\ call[1].outcome = pending
\* the poll interval and the timeout of retryUntilTruthy's inner retry calls:
\* retryPoll and retryTimeout where the options have them, else the global ones
innerPoll ==
    IF "retryPoll" \in outer.options.keys
    THEN pollMs(outer.options.retryPoll)
    ELSE objs["currentRetryOptions"].poll

innerTimeout ==
    IF "retryTimeout" \in outer.options.keys
    THEN outer.options.retryTimeout
    ELSE objs["currentRetryOptions"].timeout

\* the pattern the inner retry calls judge a thrown value against
innerErrorMatch ==
    IF "retryErrorMatch" \in outer.options.keys /\ errorMatchTruthy(outer.options.retryErrorMatch)
    THEN outer.options.retryErrorMatch
    ELSE objs["currentRetryOptions"].errorMatch

\* retryDisable is true in the options of the retryUntilTruthy call
innerDisabled == "retryDisable" \in outer.options.keys /\ outer.options.retryDisable

\* the value fn threw has a text that matches the inner retry's pattern
matchingThrow(err) ==
    LET es == errToString(err)
    IN  es.tag = "string" /\ Matches(es.s, innerErrorMatch, arrays, lastIndex)

\* what retryUntilTruthy does after an inner retry resolved with a falsy
\* value and at the timers of both levels: the inner timer invokes fn again
\* exactly when less than the inner timeout has elapsed since that inner
\* retry started; a falsy result makes retryUntilTruthy wait the outer poll
\* interval, and the timer that ends that wait, the deadline still ahead,
\* starts a new inner retry whose clock starts at that moment and whose first
\* attempt is the invocation
cadenceOfTimersAndFalsy ==
    /\ (lastOp'.name = "timerFire" /\ outer.pc = "inRetry") =>
         /\ now >= call[1].wakeAt
         /\ call'[1].startTime = call[1].startTime
         /\ outer' = outer
         /\ call'[1].pc = "inFn" <=> now - call[1].startTime < innerTimeout
         /\ call'[1].pc = "inFn" => call'[1].tries = call[1].tries + 1
    /\ (lastOp'.name = "truthyResume" /\ call[1].outcome.status = "resolved"
          /\ ~truthy(call[1].outcome.value)) =>
         /\ outer'.pc = "waiting"
         /\ ~outer.poll.raf => outer'.wakeAt = now + outer.poll.ms
         /\ (outer.poll.raf /\ ~outer.window) => outer'.wakeAt = now + RafFallbackMs
         /\ (outer.poll.raf /\ outer.window) =>
              \E frame \in FrameDelays : outer'.wakeAt = now + frame
    /\ (lastOp'.name = "truthyTimerFire" /\ now < outer.timeoutTime) =>
         /\ now >= outer.wakeAt
         /\ outer'.rounds = outer.rounds + 1
         /\ call'[1].pc = "inFn"
         /\ call'[1].tries = 1
         /\ call'[1].startTime = now
         /\ call'[1].timeout = innerTimeout
    /\ (call'[1].pc = "inFn" /\ call[1].pc # "inFn") =>
         lastOp'.name \in {"retryUntilTruthy", "timerFire", "truthyTimerFire"}

\* after a matching error thrown before the inner timeout has elapsed, the
\* same inner retry waits its own poll interval (retryPoll, else the global
\* poll), its start time unchanged
innerCadenceAfterThrow ==
    /\ call'[1].pc = "waiting"
    /\ ~innerPoll.raf => call'[1].wakeAt = now + innerPoll.ms
    /\ call'[1].startTime = call[1].startTime
    /\ outer' = outer

C33_InnerTimeoutPropagates ==
    [][/\ (lastOp'.name = "truthyResume" /\ isTimeoutRejection(call[1])) =>
            /\ outer'.pc = "done"
            /\ outer'.outcome = call[1].outcome
            /\ outer'.settledAt = now
            /\ outer'.rounds = outer.rounds
            /\ call' = call
            /\ includes(outer'.outcome.value.s,
                        sTimeoutAfter \o numberToString(innerTimeout) \o sMs)
            /\ errToString(call[1].lastErr).tag = "string"
            /\ includes(outer'.outcome.value.s, errToString(call[1].lastErr).s)
       /\ (outer.pc = "inRetry" /\ isTimeoutRejection(call[1])) =>
            lastOp'.name = "truthyResume"
      ]_vars

\* C34: a retryUntilTruthy call whose outer timeout is 0 or negative is
\* rejected by the call itself with the error 'retryUntilTruthy::Timeout
\* after <timeout>ms': no inner retry is started and fn is not invoked.
C34_NoFirstAttemptGuarantee ==
    (outer.pc # "idle" /\ outer.timeout <= 0) =>
        /\ outer.pc = "done"
        /\ outer.outcome =
             rejected(jsError(sErrorName,
                              sTruthyTimeoutPrefix \o numberToString(outer.timeout) \o sMs))
        /\ outer.settledAt = outer.startTime
        /\ outer.rounds = 0
        /\ outer.fnCalls = 0
        /\ call[1].pc = "idle"
        /\ call[1].fnCalls = 0

\* C34 witness: retryUntilTruthy(fn, { timeout: -1 }) has been rejected
C34_Witness ==
    /\ outer.pc = "done"
    /\ outer.timeout = 0 - 1
    /\ outer.outcome.status = "rejected"
    /\ outer.fnCalls = 0

outerTimeoutRaised ==
    /\ outer.pc # "done"
    /\ outer'.pc = "done"
    /\ outer'.outcome =
         rejected(jsError(sErrorName,
                          sTruthyTimeoutPrefix \o numberToString(outer'.timeout) \o sMs))

\* an inner retry that resolved with a truthy value makes retryUntilTruthy
\* resolve with it whether or not the deadline has passed; while an inner
\* retry runs, and when it ends, retryUntilTruthy does not raise its timeout
\* error; a falsy result that arrives after the deadline still starts the
\* outer wait
deadlineNotExaminedAfterRetry ==
    /\ (lastOp'.name = "truthyResume" /\ call[1].outcome.status = "resolved"
          /\ truthy(call[1].outcome.value)) =>
         outer'.outcome = resolved(call[1].outcome.value)
    /\ (lastOp'.name = "truthyResume" /\ call[1].outcome.status = "resolved"
          /\ ~truthy(call[1].outcome.value)) =>
         outer'.pc = "waiting"
    /\ outer.pc = "inRetry" => ~outerTimeoutRaised

\* C36 as stated: retryUntilTruthy does not examine its deadline when an
\* inner retry ends, and its timeout error is raised only by the loop head
\* that runs after the wait following a falsy result, the deadline passed.
C36_TimeoutOnlyAfterFalsyResult ==
    [][/\ deadlineNotExaminedAfterRetry
       /\ outerTimeoutRaised =>
            /\ lastOp'.name = "truthyTimerFire"
            /\ outer.rounds >= 1
            /\ now >= outer.timeoutTime
      ]_vars

\* C36 amended: retryUntilTruthy does not examine its deadline when an inner
\* retry ends (a truthy result that arrives after the deadline is returned),
\* and its timeout error is raised only by the loop head that finds the
\* deadline passed: at the call itself when the timeout is 0 or negative,
\* else after the wait following a falsy result.
C36_DeadlineExaminedAtLoopHead ==
    [][/\ deadlineNotExaminedAfterRetry
       /\ outerTimeoutRaised =>
            /\ now >= outer'.timeoutTime
            /\ \/ /\ lastOp'.name = "truthyTimerFire"
                  /\ outer.rounds >= 1
               \/ /\ lastOp'.name = "retryUntilTruthy"
                  /\ outer'.timeout <= 0
                  /\ outer'.rounds = 0
      ]_vars

\* C36 witness: the call has resolved with 'success' after its deadline
C36_Witness ==
    /\ outer.pc = "done"
    /\ outer.outcome = resolved(jsString(sSuccess))
    /\ outer.timeout > 0
    /\ outer.settledAt > outer.timeoutTime

C39_BackgroundWorkStops ==
    waiter.pc = "done" =>
        /\ ~waiter.polling
        /\ ~waiter.listening
        /\ ~waiter.lateMatcher

\* C40: an electronWaitForFunction call settles only when its retry call has
\* settled with a rejection, which it passes on, or with a truthy value, at
\* which it resolves; after a falsy result it waits 100 ms, and the timer
\* that ends the wait starts the next retry call, whose first attempt is the
\* next evaluation, however long ago the call was made: no step rejects the
\* call for the time that has passed.
C40_NoOverallTimeout ==
    [][/\ (lastOp'.name = "waitForFunctionResume") =>
            LET r == call[1].outcome
            IN  /\ r.status = "rejected" =>
                      /\ outer'.pc = "done"
                      /\ outer'.outcome = r
                /\ (r.status = "resolved" /\ truthy(r.value)) =>
                      /\ outer'.pc = "done"
                      /\ outer'.outcome.status = "resolved"
                      /\ outer'.settledAt = now
                /\ (r.status = "resolved" /\ ~truthy(r.value)) =>
                      /\ outer'.pc = "waiting"
                      /\ outer'.outcome = pending
                      /\ outer'.wakeAt = now + 100
       /\ (outer.pc # "done" /\ outer'.pc = "done") =>
            /\ lastOp'.name = "waitForFunctionResume"
            /\ call[1].pc = "done"
            /\ call[1].outcome.status = "rejected" \/ truthy(call[1].outcome.value)
       /\ (lastOp'.name = "waitForFunctionTimerFire") =>
            /\ outer'.pc = "inRetry"
            /\ outer'.rounds = outer.rounds + 1
            /\ call'[1].pc = "inFn"
            /\ call'[1].tries = 1
       /\ (outer.pc = "inRetry" /\ call[1].pc = "done") =>
            lastOp'.name = "waitForFunctionResume"
      ]_vars

\* C40 witness: two evaluations yielded a falsy value and the third is under
\* way, 200 ms or more after the call, which has not settled
C40_Witness ==
    /\ lastOp.name = "waitForFunctionTimerFire"
    /\ outer.pc = "inRetry"
    /\ outer.rounds = 3
    /\ outer.fnCalls = 2
    /\ now - outer.startTime >= 200
    /\ outer.outcome = pending

====
